---- MODULE Spec2Model ----
(***************************************************************************)
(* Model of the kata-containers agent configuration resolution             *)
(* (src/agent/src/config.rs): AgentConfig::from_cmdline, the file resolver *)
(* AgentConfig::from_str, the environment resolver                         *)
(* override_config_from_envs and the per-key value coercers.               *)
(*                                                                         *)
(* Strings are TLA+ strings; a token is split, matched and parsed          *)
(* character by character as the Rust code does.  Option<T> is the empty  *)
(* sequence (None) or a one-element sequence (Some(v)).  Result<T> is a    *)
(* record [ok |-> TRUE, val |-> v] or [ok |-> FALSE, err |-> chain] where  *)
(* chain is the anyhow error chain, outermost context first.               *)
(***************************************************************************)
EXTENDS Integers, Sequences, FiniteSets, TLC

(***************************************************************************)
(* Option and Result                                                       *)
(***************************************************************************)
None == <<>>

Some(v) == <<v>>

IsSome(o) == Len(o) = 1

Unwrap(o) == o[1]

Ok(v) == [ok |-> TRUE, val |-> v]

Err(chain) == [ok |-> FALSE, err |-> chain]

\* anyhow's .context(c) / .with_context(|| c): wraps an error, keeps a value
Context(r, c) == IF r.ok THEN r ELSE Err(<<c>> \o r.err)

(***************************************************************************)
(* Program constants                                                       *)
(***************************************************************************)
DEBUG_CONSOLE_FLAG == "agent.debug_console"

DEV_MODE_FLAG == "agent.devmode"

TRACE_MODE_OPTION == "agent.trace"

LOG_LEVEL_OPTION == "agent.log"

SERVER_ADDR_OPTION == "agent.server_addr"

PASSFD_LISTENER_PORT == "agent.passfd_listener_port"

HOTPLUG_TIMOUT_OPTION == "agent.hotplug_timeout"

CDH_API_TIMOUT_OPTION == "agent.cdh_api_timeout"

DEBUG_CONSOLE_VPORT_OPTION == "agent.debug_console_vport"

LOG_VPORT_OPTION == "agent.log_vport"

CONTAINER_PIPE_SIZE_OPTION == "agent.container_pipe_size"

UNIFIED_CGROUP_HIERARCHY_OPTION == "systemd.unified_cgroup_hierarchy"

CONFIG_FILE == "agent.config_file"

GUEST_COMPONENTS_REST_API_OPTION == "agent.guest_components_rest_api"

GUEST_COMPONENTS_PROCS_OPTION == "agent.guest_components_procs"

IMAGE_REGISTRY_AUTH_OPTION == "agent.image_registry_auth"

SECURE_STORAGE_INTEGRITY_OPTION == "agent.secure_storage_integrity"

ENABLE_SIGNATURE_VERIFICATION == "agent.enable_signature_verification"

IMAGE_POLICY_FILE == "agent.image_policy_file"

HTTPS_PROXY == "agent.https_proxy"

NO_PROXY == "agent.no_proxy"

DEFAULT_LOG_LEVEL == "Info"

\* time::Duration is a pair (whole seconds, nanoseconds below one second)
from_secs(n) == [secs |-> n, nanos |-> 0]

as_secs(d) == d.secs

DEFAULT_HOTPLUG_TIMEOUT == from_secs(3)

DEFAULT_CDH_API_TIMEOUT == from_secs(50)

DEFAULT_CONTAINER_PIPE_SIZE == 0

VSOCK_ADDR == "vsock://-1"

\* kata_types::config::default::DEFAULT_AGENT_VSOCK_PORT, rendered by format!
DEFAULT_AGENT_VSOCK_PORT == "1024"

SERVER_ADDR_ENV_VAR == "KATA_AGENT_SERVER_ADDR"

LOG_LEVEL_ENV_VAR == "KATA_AGENT_LOG_LEVEL"

TRACING_ENV_VAR == "KATA_AGENT_TRACING"

ERR_INVALID_LOG_LEVEL == "invalid log level"

ERR_INVALID_LOG_LEVEL_PARAM == "invalid log level parameter"

ERR_INVALID_GET_VALUE_PARAM == "expected name=value"

ERR_INVALID_GET_VALUE_NO_NAME == "name=value parameter missing name"

ERR_INVALID_GET_VALUE_NO_VALUE == "name=value parameter missing value"

ERR_INVALID_LOG_LEVEL_KEY == "invalid log level key name"

ERR_INVALID_TIMEOUT == "invalid timeout parameter"

ERR_INVALID_TIMEOUT_PARAM == "unable to parse timeout"

ERR_INVALID_TIMEOUT_KEY == "invalid timeout key name"

ERR_INVALID_CONTAINER_PIPE_SIZE == "invalid container pipe size parameter"

ERR_INVALID_CONTAINER_PIPE_SIZE_PARAM == "unable to parse container pipe size"

ERR_INVALID_CONTAINER_PIPE_SIZE_KEY == "invalid container pipe size key name"

ERR_INVALID_CONTAINER_PIPE_NEGATIVE == "container pipe size should not be negative"

ERR_INVALID_GUEST_COMPONENTS_REST_API_VALUE == "invalid guest components rest api feature given"

ERR_INVALID_GUEST_COMPONENTS_PROCS_VALUE == "invalid guest components process param given"

ERR_INVALID_PORT == "invalid port parameter"

\* errors raised by the standard library and the external crates
ParseIntError == "ParseIntError"

UrlParseError == "url::ParseError"

IoError == "io::Error"

TomlError == "toml::de::Error"

(***************************************************************************)
(* String primitives of the Rust standard library                          *)
(***************************************************************************)
CharAt(s, i) == SubSeq(s, i, i)

\* str::starts_with
starts_with(s, p) == Len(s) >= Len(p) /\ SubSeq(s, 1, Len(p)) = p

\* position of the first occurrence of the character c in s, 0 if none
RECURSIVE FindFrom(_, _, _)
FindFrom(s, c, i) ==
    IF i > Len(s) THEN 0
    ELSE IF CharAt(s, i) = c THEN i
    ELSE FindFrom(s, c, i + 1)

\* str::split(c).collect(): always at least one field, empty fields kept
RECURSIVE split(_, _)
split(s, c) ==
    LET i == FindFrom(s, c, 1) IN
    IF i = 0 THEN <<s>>
    ELSE <<SubSeq(s, 1, i - 1)>> \o split(SubSeq(s, i + 1, Len(s)), c)

\* [&str]::join(sep)
RECURSIVE join(_, _)
join(fields, sep) ==
    IF Len(fields) = 0 THEN ""
    ELSE IF Len(fields) = 1 THEN fields[1]
    ELSE fields[1] \o sep \o join(Tail(fields), sep)

AsciiWhitespace == {" ", "\t", "\n"}

\* str::split_ascii_whitespace().collect(): empty fields dropped
RECURSIVE SplitWsFrom(_, _, _)
SplitWsFrom(s, i, cur) ==
    IF i > Len(s) THEN (IF cur = "" THEN <<>> ELSE <<cur>>)
    ELSE IF CharAt(s, i) \in AsciiWhitespace
         THEN (IF cur = "" THEN <<>> ELSE <<cur>>) \o SplitWsFrom(s, i + 1, "")
         ELSE SplitWsFrom(s, i + 1, cur \o CharAt(s, i))

split_ascii_whitespace(s) == SplitWsFrom(s, 1, "")

Digits == {"0", "1", "2", "3", "4", "5", "6", "7", "8", "9"}

DigitVal(c) ==
    CASE c = "0" -> 0 [] c = "1" -> 1 [] c = "2" -> 2 [] c = "3" -> 3
      [] c = "4" -> 4 [] c = "5" -> 5 [] c = "6" -> 6 [] c = "7" -> 7
      [] c = "8" -> 8 [] c = "9" -> 9

\* accumulates the digits s[i..] onto acc, upwards (sign = 1) or downwards
\* (sign = -1) as core::num does, failing on a non-digit or on overflow
RECURSIVE ParseDigits(_, _, _, _)
ParseDigits(s, i, acc, sign) ==
    IF i > Len(s) THEN Ok(acc)
    ELSE LET c == CharAt(s, i) IN
         IF c \notin Digits THEN Err(<<ParseIntError>>)
         ELSE LET d == DigitVal(c) IN
              IF sign = 1
              THEN IF acc > 214748364 \/ (acc = 214748364 /\ d > 7)
                   THEN Err(<<ParseIntError>>)
                   ELSE ParseDigits(s, i + 1, acc * 10 + d, sign)
              ELSE IF acc < -214748364 \/ (acc = -214748364 /\ d > 8)
                   THEN Err(<<ParseIntError>>)
                   ELSE ParseDigits(s, i + 1, acc * 10 - d, sign)

\* str::parse::<i32>(): optional sign, at least one digit, 32-bit range
parse_i32(s) ==
    IF s = "" \/ s = "+" \/ s = "-" THEN Err(<<ParseIntError>>)
    ELSE IF CharAt(s, 1) = "-" THEN ParseDigits(s, 2, 0, -1)
    ELSE IF CharAt(s, 1) = "+" THEN ParseDigits(s, 2, 0, 1)
    ELSE ParseDigits(s, 1, 0, 1)

\* str::parse::<u64>(): optional '+', at least one digit, no '-'.  Values
\* are exact up to 2^31-1, the largest integer of the model; the inputs of
\* the model stay below it.
parse_u64(s) ==
    IF s = "" \/ s = "+" \/ s = "-" THEN Err(<<ParseIntError>>)
    ELSE IF CharAt(s, 1) = "+" THEN ParseDigits(s, 2, 0, 1)
    ELSE ParseDigits(s, 1, 0, 1)

\* str::parse::<bool>(): exactly "true" or "false"
parse_bool(s) ==
    IF s = "true" THEN Ok(TRUE)
    ELSE IF s = "false" THEN Ok(FALSE)
    ELSE Err(<<"ParseBoolError">>)

(***************************************************************************)
(* Value coercers                                                          *)
(***************************************************************************)
get_vsock_port(p) ==
    LET fields == split(p, "=") IN
    IF Len(fields) # 2 THEN Err(<<ERR_INVALID_PORT>>)
    ELSE parse_i32(fields[2])

logrus_to_slog_level(logrus_level) ==
    CASE logrus_level \in {"fatal", "panic"} -> Ok("Critical")
      [] logrus_level = "critical" -> Ok("Critical")
      [] logrus_level = "error" -> Ok("Error")
      [] logrus_level \in {"warn", "warning"} -> Ok("Warning")
      [] logrus_level = "info" -> Ok("Info")
      [] logrus_level = "debug" -> Ok("Debug")
      [] logrus_level = "trace" -> Ok("Trace")
      [] OTHER -> Err(<<ERR_INVALID_LOG_LEVEL>>)

\* variant: the key is compared before the fields are counted
get_log_level_key_first(param) ==
    LET fields == split(param, "=") IN
    IF fields[1] # LOG_LEVEL_OPTION THEN Err(<<ERR_INVALID_LOG_LEVEL_KEY>>)
    ELSE IF Len(fields) # 2 THEN Err(<<ERR_INVALID_LOG_LEVEL_PARAM>>)
    ELSE logrus_to_slog_level(fields[2])

get_log_level(param) ==
    LET fields == split(param, "=") IN
    IF Len(fields) # 2 THEN Err(<<ERR_INVALID_LOG_LEVEL_PARAM>>)
    ELSE IF fields[1] # LOG_LEVEL_OPTION THEN Err(<<ERR_INVALID_LOG_LEVEL_KEY>>)
    ELSE logrus_to_slog_level(fields[2])

\* variant: the value is read as a signed number and a negative one as zero
get_timeout_negative_as_zero(param) ==
    LET fields == split(param, "=") IN
    IF Len(fields) # 2 THEN Err(<<ERR_INVALID_TIMEOUT>>)
    ELSE IF fields[1] \notin {HOTPLUG_TIMOUT_OPTION, CDH_API_TIMOUT_OPTION}
         THEN Err(<<ERR_INVALID_TIMEOUT_KEY>>)
    ELSE LET value == Context(parse_i32(fields[2]), ERR_INVALID_TIMEOUT_PARAM) IN
         IF value.ok THEN Ok(from_secs(IF value.val < 0 THEN 0 ELSE value.val)) ELSE value

get_timeout(param) ==
    LET fields == split(param, "=") IN
    IF Len(fields) # 2 THEN Err(<<ERR_INVALID_TIMEOUT>>)
    ELSE IF fields[1] \notin {HOTPLUG_TIMOUT_OPTION, CDH_API_TIMOUT_OPTION}
         THEN Err(<<ERR_INVALID_TIMEOUT_KEY>>)
    ELSE LET value == Context(parse_u64(fields[2]), ERR_INVALID_TIMEOUT_PARAM) IN
         IF value.ok THEN Ok(from_secs(value.val)) ELSE value

\* variant: a value that is neither a boolean nor a number reads as true
get_bool_value_unparsed_true(param) ==
    LET fields == split(param, "=") IN
    IF Len(fields) # 2 THEN Ok(FALSE)
    ELSE LET v == fields[2]
             b == parse_bool(v)
             n == parse_u64(v)
         IN IF b.ok THEN b
            ELSE Ok((IF n.ok THEN n.val ELSE 1) # 0)

get_bool_value(param) ==
    LET fields == split(param, "=") IN
    IF Len(fields) # 2 THEN Ok(FALSE)
    ELSE LET v == fields[2]
             b == parse_bool(v)
             n == parse_u64(v)
         IN IF b.ok THEN b
            ELSE Ok((IF n.ok THEN n.val ELSE 0) # 0)

\* variant: the value is the second field only
get_string_value_second_field(param) ==
    LET fields == split(param, "=") IN
    IF Len(fields) < 2 THEN Err(<<ERR_INVALID_GET_VALUE_PARAM>>)
    ELSE IF fields[1] = "" THEN Err(<<ERR_INVALID_GET_VALUE_NO_NAME>>)
    ELSE LET value == fields[2] IN
         IF value = "" THEN Err(<<ERR_INVALID_GET_VALUE_NO_VALUE>>)
         ELSE Ok(value)

get_string_value(param) ==
    LET fields == split(param, "=") IN
    IF Len(fields) < 2 THEN Err(<<ERR_INVALID_GET_VALUE_PARAM>>)
    ELSE IF fields[1] = "" THEN Err(<<ERR_INVALID_GET_VALUE_NO_NAME>>)
    ELSE LET value == join(Tail(fields), "=") IN
         IF value = "" THEN Err(<<ERR_INVALID_GET_VALUE_NO_VALUE>>)
         ELSE Ok(value)

\* variant: the value is parsed before the key is compared
get_container_pipe_size_parse_first(param) ==
    LET fields == split(param, "=") IN
    IF Len(fields) # 2 THEN Err(<<ERR_INVALID_CONTAINER_PIPE_SIZE>>)
    ELSE LET value == Context(parse_i32(fields[2]),
                              ERR_INVALID_CONTAINER_PIPE_SIZE_PARAM) IN
         IF ~value.ok THEN value
         ELSE IF fields[1] # CONTAINER_PIPE_SIZE_OPTION
              THEN Err(<<ERR_INVALID_CONTAINER_PIPE_SIZE_KEY>>)
         ELSE IF ~(value.val >= 0) THEN Err(<<ERR_INVALID_CONTAINER_PIPE_NEGATIVE>>)
         ELSE Ok(value.val)

get_container_pipe_size(param) ==
    LET fields == split(param, "=") IN
    IF Len(fields) # 2 THEN Err(<<ERR_INVALID_CONTAINER_PIPE_SIZE>>)
    ELSE IF fields[1] # CONTAINER_PIPE_SIZE_OPTION
         THEN Err(<<ERR_INVALID_CONTAINER_PIPE_SIZE_KEY>>)
    ELSE LET value == Context(parse_i32(fields[2]),
                              ERR_INVALID_CONTAINER_PIPE_SIZE_PARAM) IN
         IF ~value.ok THEN value
         ELSE IF ~(value.val >= 0) THEN Err(<<ERR_INVALID_CONTAINER_PIPE_NEGATIVE>>)
         ELSE Ok(value.val)

\* Url::parse(value)?.to_string() of the url crate, for absolute http and
\* https URLs: the host must not be empty, and an empty path is rendered
\* as "/".  Any other text is rejected as a relative URL without a base.
UrlParseToString(value) ==
    LET rest == IF starts_with(value, "http://") THEN SubSeq(value, 8, Len(value))
                ELSE IF starts_with(value, "https://") THEN SubSeq(value, 9, Len(value))
                ELSE ""
    IN IF rest = "" \/ CharAt(rest, 1) = "/" THEN Err(<<UrlParseError>>)
       ELSE IF FindFrom(rest, "/", 1) = 0 THEN Ok(value \o "/")
       ELSE Ok(value)

get_url_value(param) ==
    LET value == get_string_value(param) IN
    IF ~value.ok THEN value ELSE UrlParseToString(value.val)

\* strum EnumString with serialize_all = "kebab-case": exact match
\* variant: an unknown word reads as the default variant
GuestComponentsFeatures_from_str_or_default(s) ==
    CASE s = "all" -> Ok("All")
      [] s = "attestation" -> Ok("Attestation")
      [] s = "resource" -> Ok("Resource")
      [] OTHER -> Ok("Resource")

GuestComponentsFeatures_from_str(s) ==
    CASE s = "all" -> Ok("All")
      [] s = "attestation" -> Ok("Attestation")
      [] s = "resource" -> Ok("Resource")
      [] OTHER -> Err(<<"strum::ParseError">>)

\* variant: the words are matched without regard to letter case
GuestComponentsProcs_from_str_ignore_case(s) ==
    CASE s \in {"none", "None", "NONE"} -> Ok("None")
      [] s \in {"api-server-rest", "Api-Server-Rest", "API-SERVER-REST"} -> Ok("ApiServerRest")
      [] s \in {"attestation-agent", "Attestation-Agent", "ATTESTATION-AGENT"} ->
             Ok("AttestationAgent")
      [] s \in {"confidential-data-hub", "Confidential-Data-Hub", "CONFIDENTIAL-DATA-HUB"} ->
             Ok("ConfidentialDataHub")
      [] OTHER -> Err(<<"strum::ParseError">>)

GuestComponentsProcs_from_str(s) ==
    CASE s = "none" -> Ok("None")
      [] s = "api-server-rest" -> Ok("ApiServerRest")
      [] s = "attestation-agent" -> Ok("AttestationAgent")
      [] s = "confidential-data-hub" -> Ok("ConfidentialDataHub")
      [] OTHER -> Err(<<"strum::ParseError">>)

\* variant: the value is extracted by get_string_value
get_guest_components_features_value_delegates(param) ==
    LET value == get_string_value(param) IN
    IF ~value.ok THEN value
    ELSE LET r == GuestComponentsFeatures_from_str(value.val) IN
         IF r.ok THEN r ELSE Err(<<ERR_INVALID_GUEST_COMPONENTS_REST_API_VALUE>>)

get_guest_components_features_value(param) ==
    LET fields == split(param, "=") IN
    IF Len(fields) < 2 THEN Err(<<ERR_INVALID_GET_VALUE_PARAM>>)
    ELSE IF fields[1] = "" THEN Err(<<ERR_INVALID_GET_VALUE_NO_NAME>>)
    ELSE LET r == GuestComponentsFeatures_from_str(join(Tail(fields), "=")) IN
         IF r.ok THEN r ELSE Err(<<ERR_INVALID_GUEST_COMPONENTS_REST_API_VALUE>>)

get_guest_components_procs_value(param) ==
    LET fields == split(param, "=") IN
    IF Len(fields) < 2 THEN Err(<<ERR_INVALID_GET_VALUE_PARAM>>)
    ELSE IF fields[1] = "" THEN Err(<<ERR_INVALID_GET_VALUE_NO_NAME>>)
    ELSE LET r == GuestComponentsProcs_from_str(join(Tail(fields), "=")) IN
         IF r.ok THEN r ELSE Err(<<ERR_INVALID_GUEST_COMPONENTS_PROCS_VALUE>>)

(***************************************************************************)
(* AgentConfig, AgentConfigBuilder and the file resolver                   *)
(***************************************************************************)
\* rpc::have_seccomp(): fixed by the build
have_seccomp == TRUE

\* impl Default for AgentConfig (guest-pull build)
DefaultConfig ==
    [debug_console |-> FALSE,
     dev_mode |-> FALSE,
     log_level |-> DEFAULT_LOG_LEVEL,
     hotplug_timeout |-> DEFAULT_HOTPLUG_TIMEOUT,
     cdh_api_timeout |-> DEFAULT_CDH_API_TIMEOUT,
     debug_console_vport |-> 0,
     log_vport |-> 0,
     container_pipe_size |-> DEFAULT_CONTAINER_PIPE_SIZE,
     server_addr |-> VSOCK_ADDR \o ":" \o DEFAULT_AGENT_VSOCK_PORT,
     passfd_listener_port |-> 0,
     unified_cgroup_hierarchy |-> FALSE,
     tracing |-> FALSE,
     supports_seccomp |-> have_seccomp,
     https_proxy |-> "",
     no_proxy |-> "",
     guest_components_rest_api |-> "Resource",
     guest_components_procs |-> "ApiServerRest",
     image_registry_auth |-> "",
     secure_storage_integrity |-> FALSE,
     enable_signature_verification |-> FALSE,
     image_policy_file |-> ""]

\* AgentConfigBuilder with every field absent
EmptyBuilder ==
    [debug_console |-> None,
     dev_mode |-> None,
     log_level |-> None,
     hotplug_timeout |-> None,
     cdh_api_timeout |-> None,
     debug_console_vport |-> None,
     log_vport |-> None,
     container_pipe_size |-> None,
     server_addr |-> None,
     passfd_listener_port |-> None,
     unified_cgroup_hierarchy |-> None,
     tracing |-> None,
     https_proxy |-> None,
     no_proxy |-> None,
     guest_components_rest_api |-> None,
     guest_components_procs |-> None,
     image_registry_auth |-> None,
     secure_storage_integrity |-> None,
     enable_signature_verification |-> None,
     image_policy_file |-> None]

\* variant: the present field is not written
config_override_dropped(builder, config, field) ==
    IF IsSome(builder[field]) THEN config ELSE config

\* config_override!(builder, config, field)
config_override(builder, config, field) ==
    IF IsSome(builder[field])
    THEN [config EXCEPT ![field] = Unwrap(builder[field])]
    ELSE config

\* the fields in the order from_str overrides them
OverrideOrder ==
    <<"debug_console", "dev_mode", "log_level", "hotplug_timeout",
      "cdh_api_timeout", "debug_console_vport", "log_vport",
      "container_pipe_size", "server_addr", "passfd_listener_port",
      "unified_cgroup_hierarchy", "tracing", "https_proxy", "no_proxy",
      "guest_components_rest_api", "guest_components_procs",
      "image_registry_auth", "enable_signature_verification",
      "image_policy_file", "secure_storage_integrity">>

\* the config_override! sequence of from_str from its i-th line on;
\* log_level goes through logrus_to_slog_level and `?`
RECURSIVE ApplyOverrides(_, _, _)
ApplyOverrides(builder, config, i) ==
    IF i > Len(OverrideOrder) THEN Ok(config)
    ELSE LET field == OverrideOrder[i] IN
         IF field = "log_level" /\ IsSome(builder.log_level)
         THEN LET level == logrus_to_slog_level(Unwrap(builder.log_level)) IN
              IF level.ok
              THEN ApplyOverrides(builder, [config EXCEPT !.log_level = level.val], i + 1)
              ELSE level
         ELSE ApplyOverrides(builder, config_override(builder, config, field), i + 1)

\* variant: an unknown level name in the file is skipped
from_str_skips_unknown_level(s) ==
    IF ~s.ok THEN s
    ELSE IF IsSome(s.val.log_level) /\ ~logrus_to_slog_level(Unwrap(s.val.log_level)).ok
    THEN ApplyOverrides([s.val EXCEPT !.log_level = None], DefaultConfig, 1)
    ELSE ApplyOverrides(s.val, DefaultConfig, 1)

\* AgentConfig::from_str.  The text s of a file is given by what
\* toml::from_str makes of it: Ok(builder) or Err(<<TomlError>>).
from_str(s) ==
    IF ~s.ok THEN s ELSE ApplyOverrides(s.val, DefaultConfig, 1)

\* The config files on disk, by path; a path outside the domain cannot be
\* read.
FileSystem ==
    ("/a" :> Ok([EmptyBuilder EXCEPT !.dev_mode = Some(TRUE),
                                     !.server_addr = Some("unix:///f"),
                                     !.log_level = Some("warn"),
                                     !.tracing = Some(TRUE),
                                     !.hotplug_timeout = Some(from_secs(9))]))
    @@ ("/z" :> Ok([EmptyBuilder EXCEPT !.hotplug_timeout = Some(from_secs(0)),
                                        !.cdh_api_timeout = Some([secs |-> 0, nanos |-> 500]),
                                        !.debug_console_vport = Some(-1),
                                        !.log_vport = Some(-7),
                                        !.passfd_listener_port = Some(-2),
                                        !.container_pipe_size = Some(-4)]))
    @@ ("/d" :> Ok([EmptyBuilder EXCEPT !.dev_mode = Some(TRUE)]))
    @@ ("/l" :> Ok([EmptyBuilder EXCEPT !.debug_console = Some(TRUE),
                                        !.log_level = Some("bogus")]))
    @@ ("/t" :> Err(<<TomlError>>))

\* fs::read_to_string on a config file path
read_to_string(file) ==
    IF file \in DOMAIN FileSystem THEN Ok(FileSystem[file]) ELSE Err(<<IoError>>)

\* AgentConfig::from_config_file
from_config_file(file) ==
    LET config == Context(read_to_string(file), "Failed to read config file " \o file) IN
    IF ~config.ok THEN config ELSE from_str(config.val)

(***************************************************************************)
(* Environment resolver                                                    *)
(***************************************************************************)
EnvVars == {SERVER_ADDR_ENV_VAR, LOG_LEVEL_ENV_VAR, TRACING_ENV_VAR}

\* env::var(name) on the environment e: None when the variable is not set
env_var(e, name) == e[name]

\* variant: a server address variable that is not set reads as empty
override_config_from_envs_addr_or_empty(self, e) ==
    LET addr == env_var(e, SERVER_ADDR_ENV_VAR)
        c1 == [self EXCEPT !.server_addr = IF IsSome(addr) THEN Unwrap(addr) ELSE ""]
        lvl == env_var(e, LOG_LEVEL_ENV_VAR)
        level == IF IsSome(lvl) THEN logrus_to_slog_level(Unwrap(lvl)) ELSE Err(<<>>)
        c2 == IF IsSome(lvl) /\ level.ok THEN [c1 EXCEPT !.log_level = level.val] ELSE c1
        value == env_var(e, TRACING_ENV_VAR)
        name_value == IF IsSome(value) THEN TRACING_ENV_VAR \o "=" \o Unwrap(value) ELSE ""
        b == get_bool_value(name_value)
    IN IF IsSome(value)
       THEN [c2 EXCEPT !.tracing = IF b.ok THEN b.val ELSE FALSE]
       ELSE c2

\* variant: an unknown level name in the environment resets the level
override_config_from_envs_resets_level(self, e) ==
    LET addr == env_var(e, SERVER_ADDR_ENV_VAR)
        c1 == IF IsSome(addr) THEN [self EXCEPT !.server_addr = Unwrap(addr)] ELSE self
        lvl == env_var(e, LOG_LEVEL_ENV_VAR)
        level == IF IsSome(lvl) THEN logrus_to_slog_level(Unwrap(lvl)) ELSE Err(<<>>)
        c2 == IF IsSome(lvl)
              THEN [c1 EXCEPT !.log_level = IF level.ok THEN level.val ELSE DEFAULT_LOG_LEVEL]
              ELSE c1
        value == env_var(e, TRACING_ENV_VAR)
        name_value == IF IsSome(value) THEN TRACING_ENV_VAR \o "=" \o Unwrap(value) ELSE ""
        b == get_bool_value(name_value)
    IN IF IsSome(value)
       THEN [c2 EXCEPT !.tracing = IF b.ok THEN b.val ELSE FALSE]
       ELSE c2

\* variant: a tracing value of the environment can only switch tracing on
override_config_from_envs_tracing_on_only(self, e) ==
    LET addr == env_var(e, SERVER_ADDR_ENV_VAR)
        c1 == IF IsSome(addr) THEN [self EXCEPT !.server_addr = Unwrap(addr)] ELSE self
        lvl == env_var(e, LOG_LEVEL_ENV_VAR)
        level == IF IsSome(lvl) THEN logrus_to_slog_level(Unwrap(lvl)) ELSE Err(<<>>)
        c2 == IF IsSome(lvl) /\ level.ok THEN [c1 EXCEPT !.log_level = level.val] ELSE c1
        value == env_var(e, TRACING_ENV_VAR)
        name_value == IF IsSome(value) THEN TRACING_ENV_VAR \o "=" \o Unwrap(value) ELSE ""
        b == get_bool_value(name_value)
    IN IF IsSome(value) /\ b.ok /\ b.val
       THEN [c2 EXCEPT !.tracing = TRUE]
       ELSE c2

\* variant: the server address of the environment does not replace an
\* address set before
override_config_from_envs_keeps_addr(self, e) ==
    LET addr == env_var(e, SERVER_ADDR_ENV_VAR)
        c1 == IF IsSome(addr) /\ self.server_addr = DefaultConfig.server_addr
              THEN [self EXCEPT !.server_addr = Unwrap(addr)] ELSE self
        lvl == env_var(e, LOG_LEVEL_ENV_VAR)
        level == IF IsSome(lvl) THEN logrus_to_slog_level(Unwrap(lvl)) ELSE Err(<<>>)
        c2 == IF IsSome(lvl) /\ level.ok THEN [c1 EXCEPT !.log_level = level.val] ELSE c1
        value == env_var(e, TRACING_ENV_VAR)
        name_value == IF IsSome(value) THEN TRACING_ENV_VAR \o "=" \o Unwrap(value) ELSE ""
        b == get_bool_value(name_value)
    IN IF IsSome(value)
       THEN [c2 EXCEPT !.tracing = IF b.ok THEN b.val ELSE FALSE]
       ELSE c2

\* AgentConfig::override_config_from_envs
override_config_from_envs(self, e) ==
    LET addr == env_var(e, SERVER_ADDR_ENV_VAR)
        c1 == IF IsSome(addr) THEN [self EXCEPT !.server_addr = Unwrap(addr)] ELSE self
        lvl == env_var(e, LOG_LEVEL_ENV_VAR)
        level == IF IsSome(lvl) THEN logrus_to_slog_level(Unwrap(lvl)) ELSE Err(<<>>)
        c2 == IF IsSome(lvl) /\ level.ok THEN [c1 EXCEPT !.log_level = level.val] ELSE c1
        value == env_var(e, TRACING_ENV_VAR)
        name_value == IF IsSome(value) THEN TRACING_ENV_VAR \o "=" \o Unwrap(value) ELSE ""
        b == get_bool_value(name_value)
        c3 == IF IsSome(value)
              THEN [c2 EXCEPT !.tracing = IF b.ok THEN b.val ELSE FALSE]
              ELSE c2
    IN c3

(***************************************************************************)
(* Kernel cmdline resolver: the parse_cmdline_param! sequence              *)
(***************************************************************************)
Flag(key, field) ==
    [kind |-> "flag", key |-> key, field |-> field, func |-> "", guard |-> "none"]

Option(key, field, func) ==
    [kind |-> "option", key |-> key, field |-> field, func |-> func, guard |-> "none"]

Guarded(key, field, func, guard) ==
    [kind |-> "option", key |-> key, field |-> field, func |-> func, guard |-> guard]

\* the tests of one loop iteration of from_cmdline after the config file
\* directive, in source order
ParamTable ==
    << Flag(DEBUG_CONSOLE_FLAG, "debug_console"),
       Flag(DEV_MODE_FLAG, "dev_mode"),
       Flag(TRACE_MODE_OPTION, "tracing"),
       Option(TRACE_MODE_OPTION, "tracing", "get_bool_value"),
       Option(LOG_LEVEL_OPTION, "log_level", "get_log_level"),
       Option(SERVER_ADDR_OPTION, "server_addr", "get_string_value"),
       Guarded(HOTPLUG_TIMOUT_OPTION, "hotplug_timeout", "get_timeout", "secs"),
       Guarded(CDH_API_TIMOUT_OPTION, "cdh_api_timeout", "get_timeout", "secs"),
       Guarded(DEBUG_CONSOLE_VPORT_OPTION, "debug_console_vport", "get_vsock_port", "port"),
       Guarded(LOG_VPORT_OPTION, "log_vport", "get_vsock_port", "port"),
       Guarded(PASSFD_LISTENER_PORT, "passfd_listener_port", "get_vsock_port", "port"),
       Option(CONTAINER_PIPE_SIZE_OPTION, "container_pipe_size", "get_container_pipe_size"),
       Option(UNIFIED_CGROUP_HIERARCHY_OPTION, "unified_cgroup_hierarchy", "get_bool_value"),
       Option(HTTPS_PROXY, "https_proxy", "get_url_value"),
       Option(NO_PROXY, "no_proxy", "get_string_value"),
       Option(GUEST_COMPONENTS_REST_API_OPTION, "guest_components_rest_api",
              "get_guest_components_features_value"),
       Option(GUEST_COMPONENTS_PROCS_OPTION, "guest_components_procs",
              "get_guest_components_procs_value"),
       Option(IMAGE_REGISTRY_AUTH_OPTION, "image_registry_auth", "get_string_value"),
       Option(ENABLE_SIGNATURE_VERIFICATION, "enable_signature_verification", "get_bool_value"),
       Option(IMAGE_POLICY_FILE, "image_policy_file", "get_string_value"),
       Option(SECURE_STORAGE_INTEGRITY_OPTION, "secure_storage_integrity", "get_bool_value") >>

\* $func($param)
Call(func, param) ==
    CASE func = "get_bool_value" -> get_bool_value(param)
      [] func = "get_log_level" -> get_log_level(param)
      [] func = "get_string_value" -> get_string_value(param)
      [] func = "get_timeout" -> get_timeout(param)
      [] func = "get_vsock_port" -> get_vsock_port(param)
      [] func = "get_container_pipe_size" -> get_container_pipe_size(param)
      [] func = "get_url_value" -> get_url_value(param)
      [] func = "get_guest_components_features_value" ->
             get_guest_components_features_value(param)
      [] func = "get_guest_components_procs_value" ->
             get_guest_components_procs_value(param)

\* variant: the guards accept zero
GuardAccepts_nonnegative(guard, val) ==
    CASE guard = "secs" -> as_secs(val) >= 0
      [] guard = "port" -> val >= 0
      [] OTHER -> TRUE

\* $guard(val): the closures passed to the guarded form of the macro
GuardAccepts(guard, val) ==
    CASE guard = "secs" -> as_secs(val) > 0
      [] guard = "port" -> val > 0
      [] OTHER -> TRUE

\* the `if` of one parse_cmdline_param! expansion
\* variant: an option key is matched as a prefix of the token
Matches_option_prefix(entry, param) ==
    IF entry.kind = "flag" THEN param = entry.key
    ELSE starts_with(param, entry.key)

\* variant: an option key without '=' is taken as the option
Matches_bare_key(entry, param) ==
    IF entry.kind = "flag" THEN param = entry.key
    ELSE param = entry.key \/ starts_with(param, entry.key \o "=")

\* variant: a flag is matched as a prefix of the token
Matches_flag_prefix(entry, param) ==
    IF entry.kind = "flag" THEN starts_with(param, entry.key)
    ELSE starts_with(param, entry.key \o "=")

Matches(entry, param) ==
    IF entry.kind = "flag" THEN param = entry.key
    ELSE starts_with(param, entry.key \o "=")

\* index of the first expansion whose `if` takes the token, 0 if none does
MatchIndex(param) ==
    LET hits == {i \in 1..Len(ParamTable) : Matches(ParamTable[i], param)} IN
    IF hits = {} THEN 0
    ELSE CHOOSE i \in hits : \A j \in hits : i <= j

\* the token is the config file directive
IsConfigFileParam(param) == starts_with(param, CONFIG_FILE \o "=")

\* variant: a field that an earlier token set is not written again
parse_cmdline_param_first_wins(config, param, entry) ==
    IF entry.kind = "flag" THEN Ok([config EXCEPT ![entry.field] = TRUE])
    ELSE LET val == Call(entry.func, param) IN
         IF ~val.ok THEN val
         ELSE IF GuardAccepts(entry.guard, val.val)
                 /\ config[entry.field] = DefaultConfig[entry.field]
              THEN Ok([config EXCEPT ![entry.field] = val.val])
              ELSE Ok(config)

\* variant: a failing coercer leaves the field and the pass goes on
parse_cmdline_param_lenient(config, param, entry) ==
    IF entry.kind = "flag" THEN Ok([config EXCEPT ![entry.field] = TRUE])
    ELSE LET val == Call(entry.func, param) IN
         IF val.ok /\ GuardAccepts(entry.guard, val.val)
         THEN Ok([config EXCEPT ![entry.field] = val.val])
         ELSE Ok(config)

\* one parse_cmdline_param! expansion taking the token: the new record, or
\* the error that `?` returns from from_cmdline
parse_cmdline_param(config, param, entry) ==
    IF entry.kind = "flag" THEN Ok([config EXCEPT ![entry.field] = TRUE])
    ELSE LET val == Call(entry.func, param) IN
         IF ~val.ok THEN val
         ELSE IF GuardAccepts(entry.guard, val.val)
              THEN Ok([config EXCEPT ![entry.field] = val.val])
              ELSE Ok(config)

(***************************************************************************)
(* Inputs                                                                  *)
(***************************************************************************)
\* largest number of tokens on the kernel command line
MaxTokens == 2

TokenPool ==
    {"agent.config_file=/a",
     "agent.trace",
     "agent.log=debug", "agent.log=bogus",
     "agent.server_addr=u=v",
     "agent.hotplug_timeout=0", "agent.hotplug_timeout=100", "agent.hotplug_timeout=-1",
     "agent.cdh_api_timeout=0", "agent.cdh_api_timeout=7",
     "agent.debug_console_vport=-5", "agent.debug_console_vport=1026",
     "agent.log_vport=0", "agent.log_vport=9",
     "agent.passfd_listener_port=-1", "agent.passfd_listener_port=8",
     "agent.container_pipe_size=-1", "agent.container_pipe_size=2048",
     "agent.container_pip_siz=100"}

TokenLists == UNION {[1..n -> TokenPool] : n \in 0..MaxTokens}

\* the text of the kernel command line file: tokens separated by blanks,
\* ended by a newline
CmdlineText(tokens) == join(tokens, " ") \o "\n"

\* outcomes of fs::read_to_string on the kernel cmdline path
KernelCmdlines == {Err(<<IoError>>)} \cup {Ok(CmdlineText(t)) : t \in TokenLists}

\* with process arguments the cmdline is one of a few
KernelCmdlinesWithArgs ==
    {Err(<<IoError>>), Ok(CmdlineText(<<"agent.log=bogus">>)),
     Ok(CmdlineText(<<"agent.devmode", "agent.server_addr=k">>))}

ArgLists ==
    {<<>>, <<"agent">>,
     <<"--config", "/a">>, <<"-c", "/z">>, <<"x", "-c", "/d">>,
     <<"--config", "/l">>, <<"-c", "/t">>, <<"--config", "/m">>,
     <<"--config", "/a", "-c">>,
     <<"-c">>, <<"x", "--config">>}

Envs ==
    {(SERVER_ADDR_ENV_VAR :> a) @@ (LOG_LEVEL_ENV_VAR :> l) @@ (TRACING_ENV_VAR :> t) :
        a \in {None, Some(""), Some("e=f")},
        l \in {None, Some("trace"), Some("")},
        t \in {None, Some("true"), Some("x")}}

(***************************************************************************)
(* AgentConfig::from_cmdline as a state machine                            *)
(***************************************************************************)
VARIABLES
    args,       \* the process arguments
    kcmdline,   \* what reading the kernel cmdline file yields
    env,        \* the process environment
    pc,         \* "start", "loop", "loaded", "done"
    params,     \* the tokens of the kernel cmdline
    idx,        \* position of the loop in params
    config,     \* the record being built
    result,     \* what from_cmdline returns
    call        \* a direct call of one function: its name, argument, result

vars == <<args, kcmdline, env, pc, params, idx, config, result, call>>

\* what from_cmdline never writes
inputs == <<args, kcmdline, env, call>>

\* no function is called directly
NoCall == [func |-> "none"]

NoResult == [kind |-> "none"]

Returned(c) == [kind |-> "ok", config |-> c]

Failed(chain) == [kind |-> "err", err |-> chain]

Panicked == [kind |-> "panic"]

\* args.iter().position(|a| a == "--config" || a == "-c"), 0 for None
config_position(a) ==
    LET hits == {i \in 1..Len(a) : a[i] = "--config" \/ a[i] = "-c"} IN
    IF hits = {} THEN 0 ELSE CHOOSE i \in hits : \A j \in hits : i <= j

Init ==
    /\ args \in ArgLists
    /\ env \in Envs
    /\ kcmdline \in (IF args = <<>> THEN KernelCmdlines ELSE KernelCmdlinesWithArgs)
    /\ pc = "start"
    /\ params = <<>>
    /\ idx = 1
    /\ config = DefaultConfig
    /\ result = NoResult
    /\ call = NoCall

\* variant: the kernel cmdline is read before the arguments are looked at
ConfigFromArgs_reads_cmdline ==
    /\ pc = "start"
    /\ config_position(args) # 0
    /\ config_position(args) + 1 <= Len(args)
    /\ LET loaded == IF kcmdline.ok
                     THEN Context(from_config_file(args[config_position(args) + 1]),
                                  "AgentConfig from args")
                     ELSE kcmdline
       IN IF loaded.ok
          THEN /\ config' = loaded.val
               /\ pc' = "loaded"
               /\ result' = result
          ELSE /\ result' = Failed(loaded.err)
               /\ pc' = "done"
               /\ config' = config
    /\ UNCHANGED <<inputs, params, idx>>

\* the config file named in the arguments is loaded
ConfigFromArgs ==
    /\ pc = "start"
    /\ config_position(args) # 0
    /\ config_position(args) + 1 <= Len(args)
    /\ LET loaded == Context(from_config_file(args[config_position(args) + 1]),
                             "AgentConfig from args") IN
       IF loaded.ok
       THEN /\ config' = loaded.val
            /\ pc' = "loaded"
            /\ result' = result
       ELSE /\ result' = Failed(loaded.err)
            /\ pc' = "done"
            /\ config' = config
    /\ UNCHANGED <<inputs, params, idx>>

\* variant: a flag without a value is an error that is returned
ConfigArgPanic_returns_error ==
    /\ pc = "start"
    /\ config_position(args) # 0
    /\ config_position(args) + 1 > Len(args)
    /\ result' = Failed(<<"The config argument wasn't formed properly">>)
    /\ pc' = "done"
    /\ UNCHANGED <<inputs, params, idx, config>>

\* --config or -c is the last argument
ConfigArgPanic ==
    /\ pc = "start"
    /\ config_position(args) # 0
    /\ config_position(args) + 1 > Len(args)
    /\ result' = Panicked
    /\ pc' = "done"
    /\ UNCHANGED <<inputs, params, idx, config>>

\* no config file argument: the kernel cmdline is read and split
ReadCmdline ==
    /\ pc = "start"
    /\ config_position(args) = 0
    /\ IF kcmdline.ok
       THEN /\ params' = split_ascii_whitespace(kcmdline.val)
            /\ pc' = "loop"
            /\ result' = result
       ELSE /\ result' = Failed(kcmdline.err)
            /\ pc' = "done"
            /\ params' = params
    /\ config' = DefaultConfig
    /\ UNCHANGED <<inputs, idx>>

\* variant: the file of the directive is laid over the record built so far
ConfigFileDirective_keeps_earlier ==
    /\ pc = "loop"
    /\ idx <= Len(params)
    /\ IsConfigFileParam(params[idx])
    /\ LET config_file == get_string_value(params[idx])
           file == IF config_file.ok
                   THEN Context(read_to_string(config_file.val),
                                "Failed to read config file " \o config_file.val)
                   ELSE config_file
           loaded == IF file.ok /\ file.val.ok
                     THEN ApplyOverrides(file.val.val, config, 1)
                     ELSE IF file.ok THEN file.val ELSE file
       IN result' = IF loaded.ok THEN Returned(loaded.val) ELSE Failed(loaded.err)
    /\ pc' = "done"
    /\ UNCHANGED <<inputs, params, idx, config>>

\* variant: the environment is applied to the record of the directive's file
ConfigFileDirective_with_envs ==
    /\ pc = "loop"
    /\ idx <= Len(params)
    /\ IsConfigFileParam(params[idx])
    /\ LET config_file == get_string_value(params[idx])
           loaded == IF config_file.ok
                     THEN Context(from_config_file(config_file.val),
                                  "AgentConfig from kernel cmdline")
                     ELSE config_file
       IN result' = IF loaded.ok
                    THEN Returned(override_config_from_envs(loaded.val, env))
                    ELSE Failed(loaded.err)
    /\ pc' = "done"
    /\ UNCHANGED <<inputs, params, idx, config>>

\* variant: the record of the directive's file replaces the record being
\* built and the pass goes on with the next token
ConfigFileDirective_continues ==
    /\ pc = "loop"
    /\ idx <= Len(params)
    /\ IsConfigFileParam(params[idx])
    /\ LET config_file == get_string_value(params[idx])
           loaded == IF config_file.ok
                     THEN Context(from_config_file(config_file.val),
                                  "AgentConfig from kernel cmdline")
                     ELSE config_file
       IN IF loaded.ok
          THEN /\ config' = loaded.val
               /\ idx' = idx + 1
               /\ UNCHANGED <<pc, result>>
          ELSE /\ result' = Failed(loaded.err)
               /\ pc' = "done"
               /\ UNCHANGED <<idx, config>>
    /\ UNCHANGED <<inputs, params>>

\* the loop is at the config file directive
ConfigFileDirective ==
    /\ pc = "loop"
    /\ idx <= Len(params)
    /\ IsConfigFileParam(params[idx])
    /\ LET config_file == get_string_value(params[idx])
           loaded == IF config_file.ok
                     THEN Context(from_config_file(config_file.val),
                                  "AgentConfig from kernel cmdline")
                     ELSE config_file
       IN result' = IF loaded.ok THEN Returned(loaded.val) ELSE Failed(loaded.err)
    /\ pc' = "done"
    /\ UNCHANGED <<inputs, params, idx, config>>

\* the loop is at a token that one of the expansions takes
CmdlineParam ==
    /\ pc = "loop"
    /\ idx <= Len(params)
    /\ ~IsConfigFileParam(params[idx])
    /\ MatchIndex(params[idx]) # 0
    /\ LET r == parse_cmdline_param(config, params[idx],
                                    ParamTable[MatchIndex(params[idx])]) IN
       /\ r.ok
       /\ config' = r.val
    /\ idx' = idx + 1
    /\ UNCHANGED <<inputs, pc, params, result>>

\* the coercer of the token fails
CmdlineParamFails ==
    /\ pc = "loop"
    /\ idx <= Len(params)
    /\ ~IsConfigFileParam(params[idx])
    /\ MatchIndex(params[idx]) # 0
    /\ LET r == parse_cmdline_param(config, params[idx],
                                    ParamTable[MatchIndex(params[idx])]) IN
       /\ ~r.ok
       /\ result' = Failed(r.err)
    /\ pc' = "done"
    /\ UNCHANGED <<inputs, params, idx, config>>

\* variant: a token that no expansion takes is an error
CmdlineParamIgnored_aborts ==
    /\ pc = "loop"
    /\ idx <= Len(params)
    /\ ~IsConfigFileParam(params[idx])
    /\ MatchIndex(params[idx]) = 0
    /\ result' = Failed(<<"unknown parameter">>)
    /\ pc' = "done"
    /\ UNCHANGED <<inputs, params, idx, config>>

\* no expansion takes the token: the loop goes on
CmdlineParamIgnored ==
    /\ pc = "loop"
    /\ idx <= Len(params)
    /\ ~IsConfigFileParam(params[idx])
    /\ MatchIndex(params[idx]) = 0
    /\ idx' = idx + 1
    /\ UNCHANGED <<inputs, pc, params, config, result>>

\* variant: the record of the arguments' file is returned as loaded
OverrideFromEnvs_cmdline_only ==
    /\ \/ pc = "loop" /\ idx > Len(params)
       \/ pc = "loaded"
    /\ config' = IF pc = "loaded" THEN config ELSE override_config_from_envs(config, env)
    /\ result' = Returned(config')
    /\ pc' = "done"
    /\ UNCHANGED <<inputs, params, idx>>

\* config.override_config_from_envs() and the return of the record, after
\* the loop or after the file of the arguments
OverrideFromEnvs ==
    /\ \/ pc = "loop" /\ idx > Len(params)
       \/ pc = "loaded"
    /\ config' = override_config_from_envs(config, env)
    /\ result' = Returned(config')
    /\ pc' = "done"
    /\ UNCHANGED <<inputs, params, idx>>

Next ==
    \/ ConfigFromArgs
    \/ ConfigArgPanic
    \/ ReadCmdline
    \/ ConfigFileDirective
    \/ CmdlineParam
    \/ CmdlineParamFails
    \/ CmdlineParamIgnored
    \/ OverrideFromEnvs

Spec == Init /\ [][Next]_vars

(***************************************************************************)
(* from_cmdline on cmdlines of flags, near misses and bare keys            *)
(***************************************************************************)
\* flags, tokens that differ from a flag by a suffix or an '=', valued
\* options, option keys without '=', and a config file directive
WordPool ==
    {"agent.debug_console", "agent.devmode", "agent.trace",
     "agent.debug_consolex", "agent.debug_console=true", "agent.devmode=1",
     "agent.tracer", "agent.trac", "trace",
     "agent.trace=foo", "agent.trace=true",
     "agent.log", "agent.hotplug_timeout", "agent.container_pipe_size",
     "agent.server_addr",
     "agent.log=debug", "agent.log=warn", "agent.log=bogus",
     "agent.hotplug_timeout=5", "agent.hotplug_timeout=9", "agent.hotplug_timeout=0",
     "agent.log_vport=7", "agent.debug_console_vport=3",
     "agent.config_file=/z"}

WordLists == UNION {[1..n -> WordPool] : n \in 0..MaxTokens}

WordCmdlines == {Ok(CmdlineText(t)) : t \in WordLists}

WordEnvs ==
    {(SERVER_ADDR_ENV_VAR :> None) @@ (LOG_LEVEL_ENV_VAR :> None)
         @@ (TRACING_ENV_VAR :> None),
     (SERVER_ADDR_ENV_VAR :> None) @@ (LOG_LEVEL_ENV_VAR :> Some("trace"))
         @@ (TRACING_ENV_VAR :> Some("x"))}

InitWords ==
    /\ args \in {<<>>, <<"-c", "/d">>, <<"-c">>}
    /\ env \in WordEnvs
    /\ kcmdline \in (IF args = <<>> THEN WordCmdlines ELSE {Err(<<IoError>>)})
    /\ pc = "start"
    /\ params = <<>>
    /\ idx = 1
    /\ config = DefaultConfig
    /\ result = NoResult
    /\ call = NoCall

SpecWords == InitWords /\ [][Next]_vars

(***************************************************************************)
(* from_cmdline as a function of its inputs                                *)
(***************************************************************************)
\* the loop of from_cmdline from token i on, and what follows it
RECURSIVE cmdline_loop(_, _, _, _)
cmdline_loop(ps, i, c, e) ==
    IF i > Len(ps) THEN Returned(override_config_from_envs(c, e))
    ELSE IF IsConfigFileParam(ps[i])
    THEN LET config_file == get_string_value(ps[i])
             loaded == IF config_file.ok
                       THEN Context(from_config_file(config_file.val),
                                    "AgentConfig from kernel cmdline")
                       ELSE config_file
         IN IF loaded.ok THEN Returned(loaded.val) ELSE Failed(loaded.err)
    ELSE IF MatchIndex(ps[i]) = 0 THEN cmdline_loop(ps, i + 1, c, e)
    ELSE LET r == parse_cmdline_param(c, ps[i], ParamTable[MatchIndex(ps[i])]) IN
         IF r.ok THEN cmdline_loop(ps, i + 1, r.val, e) ELSE Failed(r.err)

\* AgentConfig::from_cmdline on arguments a, kernel cmdline file k and
\* environment e
from_cmdline(a, k, e) ==
    IF config_position(a) # 0
    THEN IF config_position(a) + 1 <= Len(a)
         THEN LET loaded == Context(from_config_file(a[config_position(a) + 1]),
                                    "AgentConfig from args") IN
              IF loaded.ok THEN Returned(override_config_from_envs(loaded.val, e))
              ELSE Failed(loaded.err)
         ELSE Panicked
    ELSE IF ~k.ok THEN Failed(k.err)
    ELSE cmdline_loop(split_ascii_whitespace(k.val), 1, DefaultConfig, e)

\* the state machine returns what the function returns
DoneIsFromCmdline == pc = "done" => result = from_cmdline(args, kcmdline, env)

(***************************************************************************)
(* Direct calls of the functions, as the unit tests make them              *)
(***************************************************************************)
CallKeys ==
    {LOG_LEVEL_OPTION, HOTPLUG_TIMOUT_OPTION, CDH_API_TIMOUT_OPTION,
     CONTAINER_PIPE_SIZE_OPTION, TRACE_MODE_OPTION,
     GUEST_COMPONENTS_REST_API_OPTION, GUEST_COMPONENTS_PROCS_OPTION, "x", ""}

CallValues ==
    {"", "true", "false", "0", "1", "00", "11", "100", "2048", "-1", "-0", "+5",
     "a", "x", "=x", "x=x", "=", "==", "bogus",
     "fatal", "panic", "critical", "error", "warn", "warning", "info", "debug",
     "trace", "debugging", "xdebug", "Debug",
     "all", "attestation", "resource", "ALL", "Attestation",
     "none", "api-server-rest", "attestation-agent", "confidential-data-hub",
     "None", "API-SERVER-REST", "api_server_rest"}

\* values at the ends of the 32-bit range, for the i32 coercers only
I32Values == {"2147483647", "2147483648", "-2147483648", "-2147483649", "99999999999"}

BareTokens == CallKeys \cup {"foo", "agent.log_vport", "agent.server_addr"}

CallTokens == {k \o "=" \o v : k \in CallKeys, v \in CallValues} \cup BareTokens

I32Tokens == CallTokens \cup {k \o "=" \o v : k \in {CONTAINER_PIPE_SIZE_OPTION, "x"}, v \in I32Values}

\* an AgentConfigBuilder with every field present
SampleBuilder ==
    [debug_console |-> Some(TRUE),
     dev_mode |-> Some(TRUE),
     log_level |-> Some("debug"),
     hotplug_timeout |-> Some(from_secs(11)),
     cdh_api_timeout |-> Some(from_secs(12)),
     debug_console_vport |-> Some(1026),
     log_vport |-> Some(1027),
     container_pipe_size |-> Some(2048),
     server_addr |-> Some("vsock://8:2048"),
     passfd_listener_port |-> Some(1028),
     unified_cgroup_hierarchy |-> Some(TRUE),
     tracing |-> Some(TRUE),
     https_proxy |-> Some("http://proxy.url.com:81/"),
     no_proxy |-> Some("*.internal.url.com"),
     guest_components_rest_api |-> Some("All"),
     guest_components_procs |-> Some("None"),
     image_registry_auth |-> Some("file:///auth.json"),
     secure_storage_integrity |-> Some(TRUE),
     enable_signature_verification |-> Some(TRUE),
     image_policy_file |-> Some("file:///policy.json")]

\* what toml::from_str makes of the files given to from_str
CallFiles ==
    {Err(<<TomlError>>), Ok(EmptyBuilder), Ok(SampleBuilder)}
    \cup {Ok([EmptyBuilder EXCEPT ![f] = SampleBuilder[f]]) : f \in DOMAIN EmptyBuilder}
    \cup {Ok([SampleBuilder EXCEPT ![f] = None]) : f \in DOMAIN EmptyBuilder}
    \cup {Ok([EmptyBuilder EXCEPT !.dev_mode = d, !.log_level = l,
                                  !.server_addr = a, !.debug_console = c]) :
             d \in {None, Some(TRUE), Some(FALSE)},
             l \in {None, Some("warn"), Some("bogus"), Some(""), Some("Info")},
             a \in {None, Some("")},
             c \in {None, Some(FALSE)}}

\* the records and environments given to override_config_from_envs
CallSelves ==
    {DefaultConfig,
     [DefaultConfig EXCEPT !.tracing = TRUE, !.log_level = "Debug",
                           !.server_addr = "unix:///f", !.dev_mode = TRUE]}

CallEnvs ==
    {(SERVER_ADDR_ENV_VAR :> a) @@ (LOG_LEVEL_ENV_VAR :> l) @@ (TRACING_ENV_VAR :> t) :
        a \in {None, Some(""), Some("e=f")},
        l \in {None} \cup {Some(v) : v \in {"", "trace", "debug", "warn", "debugger",
                                            "invalid", "Info"}},
        t \in {None} \cup {Some(v) : v \in {"", "true", "false", "0", "1", "7", "x",
                                            "a=b", "-1", "TRUE"}}}

NoEnv == (SERVER_ADDR_ENV_VAR :> None) @@ (LOG_LEVEL_ENV_VAR :> None) @@ (TRACING_ENV_VAR :> None)

Pending(f, a) == [func |-> f, arg |-> a, done |-> FALSE, ret |-> NoResult]

\* cmdline tokens of the two enumerated options
EnumTokens ==
    {GUEST_COMPONENTS_REST_API_OPTION \o "=" \o v :
         v \in {"all", "bogus", "ALL", "=x"}}
    \cup {GUEST_COMPONENTS_PROCS_OPTION \o "=" \o v :
              v \in {"none", "None", ""}}
    \cup {"agent.log=debug"}

\* kernel cmdlines of one of them, and of one followed by another
EnumCmdlines ==
    {Ok(CmdlineText(<<t>>)) : t \in EnumTokens}
    \cup {Ok(CmdlineText(<<t, u>>)) : t \in EnumTokens, u \in EnumTokens}

\* kernel cmdlines of one timeout token
TimeoutCmdlines ==
    {Ok(CmdlineText(<<k \o "=" \o v>>)) :
         k \in {HOTPLUG_TIMOUT_OPTION, CDH_API_TIMOUT_OPTION}, v \in {"-1", "0", "5", "x"}}

\* from_cmdline on a config file, named by the arguments or by the
\* directive of the kernel cmdline
FileCalls ==
    {[a |-> <<"--config", f>>, k |-> Err(<<IoError>>), e |-> NoEnv] : f \in {"/a", "/l"}}
    \cup {[a |-> <<>>, k |-> Ok(CmdlineText(<<CONFIG_FILE \o "=" \o f>>)), e |-> NoEnv] :
              f \in {"/a", "/l"}}

CallInputs ==
    {Pending(f, t) : f \in {"get_bool_value", "get_string_value", "get_log_level",
                            "get_timeout", "get_guest_components_features_value",
                            "get_guest_components_procs_value"},
                     t \in CallTokens}
    \cup {Pending("get_container_pipe_size", t) : t \in I32Tokens}
    \cup {Pending("from_str", s) : s \in CallFiles}
    \cup {Pending("from_cmdline", [a |-> <<>>, k |-> k, e |-> NoEnv]) :
             k \in EnumCmdlines \cup TimeoutCmdlines}
    \cup {Pending("from_cmdline", c) : c \in FileCalls}
    \cup {Pending("override_config_from_envs", [self |-> c, e |-> e]) :
             c \in CallSelves, e \in CallEnvs}

\* the resolver is not running
Idle ==
    /\ args = <<>>
    /\ kcmdline = Err(<<IoError>>)
    /\ env = NoEnv
    /\ pc = "idle"
    /\ params = <<>>
    /\ idx = 1
    /\ config = DefaultConfig
    /\ result = NoResult

InitCalls ==
    /\ call \in CallInputs
    /\ Idle

\* the variables of the resolver
resolver == <<args, kcmdline, env, pc, params, idx, config, result>>

\* get_bool_value is called on call.arg and returns
CallGetBoolValue ==
    /\ call.func = "get_bool_value"
    /\ ~call.done
    /\ call' = [call EXCEPT !.done = TRUE,
                            !.ret = get_bool_value(call.arg)]
    /\ UNCHANGED resolver

\* get_string_value is called on call.arg and returns
CallGetStringValue ==
    /\ call.func = "get_string_value"
    /\ ~call.done
    /\ call' = [call EXCEPT !.done = TRUE,
                            !.ret = get_string_value(call.arg)]
    /\ UNCHANGED resolver

\* get_log_level is called on call.arg and returns
CallGetLogLevel ==
    /\ call.func = "get_log_level"
    /\ ~call.done
    /\ call' = [call EXCEPT !.done = TRUE,
                            !.ret = get_log_level(call.arg)]
    /\ UNCHANGED resolver

\* get_timeout is called on call.arg and returns
CallGetTimeout ==
    /\ call.func = "get_timeout"
    /\ ~call.done
    /\ call' = [call EXCEPT !.done = TRUE,
                            !.ret = get_timeout(call.arg)]
    /\ UNCHANGED resolver

\* get_container_pipe_size is called on call.arg and returns
CallGetContainerPipeSize ==
    /\ call.func = "get_container_pipe_size"
    /\ ~call.done
    /\ call' = [call EXCEPT !.done = TRUE,
                            !.ret = get_container_pipe_size(call.arg)]
    /\ UNCHANGED resolver

\* get_guest_components_features_value is called on call.arg and returns
CallGetGuestComponentsFeaturesValue ==
    /\ call.func = "get_guest_components_features_value"
    /\ ~call.done
    /\ call' = [call EXCEPT !.done = TRUE,
                            !.ret = get_guest_components_features_value(call.arg)]
    /\ UNCHANGED resolver

\* get_guest_components_procs_value is called on call.arg and returns
CallGetGuestComponentsProcsValue ==
    /\ call.func = "get_guest_components_procs_value"
    /\ ~call.done
    /\ call' = [call EXCEPT !.done = TRUE,
                            !.ret = get_guest_components_procs_value(call.arg)]
    /\ UNCHANGED resolver

\* from_str is called on call.arg and returns
CallFromStr ==
    /\ call.func = "from_str"
    /\ ~call.done
    /\ call' = [call EXCEPT !.done = TRUE,
                            !.ret = from_str(call.arg)]
    /\ UNCHANGED resolver

\* override_config_from_envs is called on call.arg and returns
CallOverrideConfigFromEnvs ==
    /\ call.func = "override_config_from_envs"
    /\ ~call.done
    /\ call' = [call EXCEPT !.done = TRUE,
                            !.ret = override_config_from_envs(call.arg.self, call.arg.e)]
    /\ UNCHANGED resolver

CallFromCmdline ==
    /\ call.func = "from_cmdline"
    /\ ~call.done
    /\ call' = [call EXCEPT !.done = TRUE,
                            !.ret = from_cmdline(call.arg.a, call.arg.k, call.arg.e)]
    /\ UNCHANGED resolver

NextCalls ==
    \/ CallGetBoolValue
    \/ CallGetStringValue
    \/ CallGetLogLevel
    \/ CallGetTimeout
    \/ CallGetContainerPipeSize
    \/ CallGetGuestComponentsFeaturesValue
    \/ CallGetGuestComponentsProcsValue
    \/ CallFromStr
    \/ CallOverrideConfigFromEnvs
    \/ CallFromCmdline

SpecCalls == InitCalls /\ [][NextCalls]_vars

\* the call of f has returned
Called(f) == call.func = f /\ call.done

(***************************************************************************)
(* Vocabulary of the properties                                            *)
(***************************************************************************)
\* from_cmdline has finished on the kernel cmdline path with tokens params
CmdlinePathDone ==
    /\ pc = "done"
    /\ config_position(args) = 0
    /\ kcmdline.ok

\* from_cmdline has finished on the --config / -c path
ArgsPathDone ==
    /\ pc = "done"
    /\ config_position(args) # 0
    /\ config_position(args) + 1 <= Len(args)

\* the token starts with a valued option key and '=', and the coercer of
\* that key fails on it
CoercerFails(tok) ==
    \E k \in 1..Len(ParamTable) :
        /\ ParamTable[k].kind = "option"
        /\ starts_with(tok, ParamTable[k].key \o "=")
        /\ ~Call(ParamTable[k].func, tok).ok

\* the error of the failing coercer
CoercerError(tok) ==
    LET k == CHOOSE k \in 1..Len(ParamTable) :
                 /\ ParamTable[k].kind = "option"
                 /\ starts_with(tok, ParamTable[k].key \o "=")
    IN Call(ParamTable[k].func, tok).err

\* the token is neither the config file directive, nor a flag, nor a
\* valued option key followed by '='
Unrecognized(tok) ==
    /\ ~starts_with(tok, CONFIG_FILE \o "=")
    /\ \A k \in 1..Len(ParamTable) :
           IF ParamTable[k].kind = "flag" THEN tok # ParamTable[k].key
           ELSE ~starts_with(tok, ParamTable[k].key \o "=")

\* the pass over ps reaches a config file directive at position i: no
\* earlier token is a directive or aborts the pass
ReachesDirectiveAt(ps, i) ==
    /\ i \in 1..Len(ps)
    /\ starts_with(ps[i], CONFIG_FILE \o "=")
    /\ \A j \in 1..(i - 1) :
           /\ ~starts_with(ps[j], CONFIG_FILE \o "=")
           /\ ~CoercerFails(ps[j])

NoDirective(ps) == \A i \in 1..Len(ps) : ~starts_with(ps[i], CONFIG_FILE \o "=")

\* the text of a token after its first '='
ValueText(tok) == SubSeq(tok, FindFrom(tok, "=", 1) + 1, Len(tok))

RemoveAt(ps, i) == SubSeq(ps, 1, i - 1) \o SubSeq(ps, i + 1, Len(ps))

\* the lenient boolean reading of an environment value
LenientTrue(v) == v = "true" \/ (parse_u64(v).ok /\ parse_u64(v).val # 0)

EnvFields == {"server_addr", "log_level", "tracing"}

(***************************************************************************)
(* Properties                                                              *)
(***************************************************************************)
\* C1: without --config/-c and without a config file directive token, a
\* set server address variable is the returned server_addr verbatim,
\* whatever agent.server_addr tokens the cmdline has.
C1_EnvServerAddrWins ==
    (/\ CmdlinePathDone
     /\ NoDirective(params)
     /\ result.kind = "ok"
     /\ IsSome(env[SERVER_ADDR_ENV_VAR]))
    => result.config.server_addr = Unwrap(env[SERVER_ADDR_ENV_VAR])

C1_Witness ==
    /\ CmdlinePathDone
    /\ result.kind = "ok"
    /\ params = <<"agent.server_addr=u=v", "agent.log=debug">>
    /\ env[SERVER_ADDR_ENV_VAR] = Some("")
    /\ result.config.server_addr = ""

\* C2: on the --config/-c path with a file that loads, every field the
\* environment sets has the environment's value even when the file sets it
\* too, and every other field is the file resolver's.
C2_EnvAfterFileOnArgsPath ==
    (ArgsPathDone /\ from_config_file(args[config_position(args) + 1]).ok)
    => LET f == from_config_file(args[config_position(args) + 1]).val
           a == env[SERVER_ADDR_ENV_VAR]
           l == env[LOG_LEVEL_ENV_VAR]
           t == env[TRACING_ENV_VAR]
       IN /\ result.kind = "ok"
          /\ result.config.server_addr = IF IsSome(a) THEN Unwrap(a) ELSE f.server_addr
          /\ result.config.log_level =
                 IF IsSome(l) /\ logrus_to_slog_level(Unwrap(l)).ok
                 THEN logrus_to_slog_level(Unwrap(l)).val
                 ELSE f.log_level
          /\ result.config.tracing = IF IsSome(t) THEN LenientTrue(Unwrap(t)) ELSE f.tracing
          /\ \A field \in (DOMAIN DefaultConfig) \ EnvFields :
                 result.config[field] = f[field]

C2_Witness ==
    /\ ArgsPathDone
    /\ args = <<"--config", "/a">>
    /\ env[SERVER_ADDR_ENV_VAR] = Some("e=f")
    /\ env[LOG_LEVEL_ENV_VAR] = Some("trace")
    /\ env[TRACING_ENV_VAR] = Some("x")
    /\ result.kind = "ok"
    /\ result.config.server_addr = "e=f"
    /\ result.config.log_level = "Trace"
    /\ result.config.tracing = FALSE
    /\ result.config.dev_mode = TRUE

\* C3: when the pass reaches agent.config_file=<path>, the outcome is the
\* file resolver's for that path and the environment has no effect on it.
C3_DirectiveSkipsEnv ==
    \A i \in 1..Len(params) :
        (CmdlinePathDone /\ ReachesDirectiveAt(params, i))
        => /\ from_config_file(ValueText(params[i])).ok
              => result = Returned(from_config_file(ValueText(params[i])).val)
           /\ \A e \in Envs : result = from_cmdline(args, kcmdline, e)

C3_Witness ==
    /\ CmdlinePathDone
    /\ params = <<"agent.config_file=/a">>
    /\ env[SERVER_ADDR_ENV_VAR] = Some("e=f")
    /\ env[LOG_LEVEL_ENV_VAR] = Some("trace")
    /\ env[TRACING_ENV_VAR] = Some("x")
    /\ result.kind = "ok"
    /\ result.config.server_addr = "unix:///f"
    /\ result.config.log_level = "Warning"
    /\ result.config.tracing = TRUE

\* C4: once the pass reaches agent.config_file=<path>, no later token is
\* processed: the outcome is the same whatever follows the directive.
C4_DirectiveIgnoresRest ==
    \A i \in 1..Len(params) :
        (CmdlinePathDone /\ ReachesDirectiveAt(params, i))
        => \A rest \in {<<>>} \cup {<<t>> : t \in TokenPool} :
               result = cmdline_loop(SubSeq(params, 1, i) \o rest, 1, DefaultConfig, env)

C4_Witness ==
    /\ CmdlinePathDone
    /\ params = <<"agent.config_file=/a", "agent.log=bogus">>
    /\ result.kind = "ok"
    /\ result.config.dev_mode = TRUE

\* C5: a token whose coercer fails, with no config file directive before
\* it, makes from_cmdline return an error and no record; it is that
\* token's error when the tokens before it are valid.
C5_CoercerFailureAborts ==
    \A i \in 1..Len(params) :
        (/\ CmdlinePathDone
         /\ CoercerFails(params[i])
         /\ NoDirective(SubSeq(params, 1, i - 1)))
        => /\ result.kind = "err"
           /\ (\A j \in 1..(i - 1) : ~CoercerFails(params[j]))
              => result.err = CoercerError(params[i])

C5_Witness ==
    /\ CmdlinePathDone
    /\ params = <<"agent.hotplug_timeout=100", "agent.log=bogus">>
    /\ env[SERVER_ADDR_ENV_VAR] = Some("e=f")
    /\ result = Failed(<<ERR_INVALID_LOG_LEVEL>>)

\* a duration a timeout field may hold: the default or whole seconds > 0
PositiveSecsOr(default, d) == d = default \/ (d.secs > 0 /\ d.nanos = 0)

\* C6: in every returned record each timeout is a strictly positive whole
\* number of seconds or its default; a zero duration of an input is never
\* stored.
C6_TimeoutsPositiveOrDefault ==
    (pc = "done" /\ result.kind = "ok")
    => /\ PositiveSecsOr(DEFAULT_HOTPLUG_TIMEOUT, result.config.hotplug_timeout)
       /\ PositiveSecsOr(DEFAULT_CDH_API_TIMEOUT, result.config.cdh_api_timeout)

\* C7: in every returned record each vsock port is strictly positive or
\* the default 0.
C7_PortsPositiveOrDefault ==
    (pc = "done" /\ result.kind = "ok")
    => /\ result.config.debug_console_vport >= 0
       /\ result.config.log_vport >= 0
       /\ result.config.passfd_listener_port >= 0

\* C8: in every returned record container_pipe_size is >= 0.
C8_PipeSizeNonNegative ==
    (pc = "done" /\ result.kind = "ok") => result.config.container_pipe_size >= 0

\* the five guarded keys, their fields and coercers
GuardedKeys ==
    {<<HOTPLUG_TIMOUT_OPTION, "hotplug_timeout", "secs">>,
     <<CDH_API_TIMOUT_OPTION, "cdh_api_timeout", "secs">>,
     <<DEBUG_CONSOLE_VPORT_OPTION, "debug_console_vport", "port">>,
     <<LOG_VPORT_OPTION, "log_vport", "port">>,
     <<PASSFD_LISTENER_PORT, "passfd_listener_port", "port">>}

\* what the loop does on a guarded token whose value parses: it goes on,
\* a strictly positive value is stored exactly, any other leaves the record
GuardedStep(g) ==
    LET tok == params[idx]
        v == IF g[3] = "secs" THEN parse_u64(ValueText(tok)) ELSE parse_i32(ValueText(tok))
    IN (/\ starts_with(tok, g[1] \o "=")
        /\ FindFrom(ValueText(tok), "=", 1) = 0
        /\ v.ok)
       => /\ pc' = "loop"
          /\ idx' = idx + 1
          /\ result' = NoResult
          /\ config' = IF v.val > 0
                       THEN [config EXCEPT ![g[2]] =
                                IF g[3] = "secs" THEN [secs |-> v.val, nanos |-> 0]
                                ELSE v.val]
                       ELSE config

\* C9: a guarded token whose value parses but is not strictly positive
\* does not abort and leaves the field as it was; a strictly positive
\* value is stored exactly.
C9_GuardRejectionKeepsValue ==
    [][(pc = "loop" /\ idx <= Len(params)) => \A g \in GuardedKeys : GuardedStep(g)]_vars

C9_Witness ==
    /\ pc = "loop"
    /\ idx = 3
    /\ params = <<"agent.hotplug_timeout=100", "agent.hotplug_timeout=0">>
    /\ config.hotplug_timeout = [secs |-> 100, nanos |-> 0]
    /\ result = NoResult

\* C10: an unrecognized token does not abort the resolution and changes
\* nothing: the outcome is that of the cmdline without the token.
C10_UnrecognizedTokenIgnored ==
    \A i \in 1..Len(params) :
        (CmdlinePathDone /\ Unrecognized(params[i]))
        => result = cmdline_loop(RemoveAt(params, i), 1, DefaultConfig, env)

C10_Witness ==
    /\ CmdlinePathDone
    /\ params = <<"agent.container_pip_siz=100", "agent.container_pipe_size=2048">>
    /\ result.kind = "ok"
    /\ result.config.container_pipe_size = 2048

\* C11: with --config/-c followed by a path the kernel cmdline is never
\* read: the outcome is the same for every cmdline file, unreadable ones
\* and aborting ones included.
C11_ArgsPathIgnoresCmdline ==
    ArgsPathDone
    => \A k \in KernelCmdlinesWithArgs \cup {Ok(CmdlineText(<<t>>)) : t \in TokenPool} :
           result = from_cmdline(args, k, env)

C11_Witness ==
    /\ ArgsPathDone
    /\ args = <<"--config", "/a">>
    /\ kcmdline = Err(<<IoError>>)
    /\ result.kind = "ok"
    /\ result.config.dev_mode = TRUE

(***************************************************************************)
(* Vocabulary of the properties of the functions                           *)
(***************************************************************************)
\* the level names and their levels
LevelTable ==
    ("fatal" :> "Critical") @@ ("panic" :> "Critical") @@ ("critical" :> "Critical")
    @@ ("error" :> "Error") @@ ("warn" :> "Warning") @@ ("warning" :> "Warning")
    @@ ("info" :> "Info") @@ ("debug" :> "Debug") @@ ("trace" :> "Trace")

\* number of '=' in a token
CountEq(tok) == Cardinality({i \in 1..Len(tok) : CharAt(tok, i) = "="})

\* the text of a token before its first '=' (the whole token if none)
KeyText(tok) ==
    IF FindFrom(tok, "=", 1) = 0 THEN tok ELSE SubSeq(tok, 1, FindFrom(tok, "=", 1) - 1)

AllDigits(v) == v # "" /\ \A i \in 1..Len(v) : CharAt(v, i) \in Digits

SomeNonzeroDigit(v) == \E i \in 1..Len(v) : CharAt(v, i) \in Digits \ {"0"}

\* decimal digits with an optional sign
IsIntegerText(v) ==
    \/ AllDigits(v)
    \/ Len(v) > 1 /\ CharAt(v, 1) \in {"+", "-"} /\ AllDigits(SubSeq(v, 2, Len(v)))

\* decimal digits with an optional '+': what parses as an unsigned integer
IsUnsignedText(v) ==
    \/ AllDigits(v)
    \/ Len(v) > 1 /\ CharAt(v, 1) = "+" /\ AllDigits(SubSeq(v, 2, Len(v)))

\* C12: from_str returns the default record with exactly the present
\* fields overwritten by the file's values (the level name by its level)
\* and every absent field at its default.
C12_FromStrOverlaysDefaults ==
    (Called("from_str") /\ call.arg.ok)
    => LET b == call.arg.val
           levelKnown == b.log_level = None \/ Unwrap(b.log_level) \in DOMAIN LevelTable
       IN /\ levelKnown => call.ret.ok
          /\ call.ret.ok =>
                \A f \in DOMAIN DefaultConfig :
                    call.ret.val[f] =
                        IF f \in DOMAIN b /\ b[f] # None
                        THEN (IF f = "log_level" THEN LevelTable[Unwrap(b[f])]
                              ELSE Unwrap(b[f]))
                        ELSE DefaultConfig[f]

C12_Witness ==
    /\ Called("from_str")
    /\ call.arg = Ok([EmptyBuilder EXCEPT !.dev_mode = Some(TRUE)])
    /\ call.ret = Ok([DefaultConfig EXCEPT !.dev_mode = TRUE])

\* C13 as stated: get_bool_value never fails and yields true exactly for
\* a token with two '='-fields whose value is "true" or a nonzero integer
\* text.
C13_AnyNonzeroIntegerIsTrue ==
    Called("get_bool_value")
    => /\ call.ret.ok
       /\ call.ret.val =
              (/\ CountEq(call.arg) = 1
               /\ \/ ValueText(call.arg) = "true"
                  \/ (IsIntegerText(ValueText(call.arg))
                      /\ SomeNonzeroDigit(ValueText(call.arg))))

\* C13 amended: get_bool_value never fails and yields true exactly for a
\* token with two '='-fields whose value is "true" or a nonzero unsigned
\* integer text; a negative integer text yields false.
C13_NonzeroUnsignedIsTrue ==
    Called("get_bool_value")
    => /\ call.ret.ok
       /\ call.ret.val =
              (/\ CountEq(call.arg) = 1
               /\ \/ ValueText(call.arg) = "true"
                  \/ (IsUnsignedText(ValueText(call.arg))
                      /\ SomeNonzeroDigit(ValueText(call.arg))))

C13_Witness ==
    /\ Called("get_bool_value")
    /\ call.arg = "agent.trace=-1"
    /\ call.ret = Ok(FALSE)

\* C14: a set log level variable overwrites log_level only when its value
\* is a level name; any other value, the empty one included, leaves the
\* level the record had before.
C14_EnvLogLevelOnlyWhenValid ==
    Called("override_config_from_envs")
    => LET l == call.arg.e[LOG_LEVEL_ENV_VAR] IN
       call.ret.log_level =
           IF IsSome(l) /\ Unwrap(l) \in DOMAIN LevelTable
           THEN LevelTable[Unwrap(l)]
           ELSE call.arg.self.log_level

C14_Witness ==
    /\ Called("override_config_from_envs")
    /\ call.arg.self.log_level = "Debug"
    /\ call.arg.e[LOG_LEVEL_ENV_VAR] = Some("")
    /\ call.ret.log_level = "Debug"

\* C15: a set tracing variable always overwrites tracing: true only for
\* "true" or a nonzero integer text, false for every other value, also
\* when tracing was enabled before.
C15_EnvTracingAlwaysOverwrites ==
    (Called("override_config_from_envs") /\ IsSome(call.arg.e[TRACING_ENV_VAR]))
    => LET v == Unwrap(call.arg.e[TRACING_ENV_VAR]) IN
       /\ call.ret.tracing =
              (v = "true" \/ (IsUnsignedText(v) /\ SomeNonzeroDigit(v)))
       /\ call.ret.tracing => (v = "true" \/ (IsIntegerText(v) /\ SomeNonzeroDigit(v)))

C15_Witness ==
    /\ Called("override_config_from_envs")
    /\ call.arg.self.tracing = TRUE
    /\ call.arg.e[TRACING_ENV_VAR] = Some("")
    /\ call.ret.tracing = FALSE

I32Texts ==
    {"0", "1", "00", "11", "100", "2048", "-1", "-0", "+5",
     "2147483647", "-2147483648"}

\* the non-negative ones and their numbers
NonNegative ==
    ("0" :> 0) @@ ("1" :> 1) @@ ("00" :> 0) @@ ("11" :> 11) @@ ("100" :> 100)
    @@ ("2048" :> 2048) @@ ("-0" :> 0) @@ ("+5" :> 5) @@ ("2147483647" :> 2147483647)

\* C17: get_container_pipe_size returns the first failure of: not exactly
\* two '='-fields, key not agent.container_pipe_size, value not a signed
\* 32-bit integer, value negative; otherwise the value, zero included.
C17_PipeSizeCheckOrder ==
    Called("get_container_pipe_size")
    => LET v == ValueText(call.arg) IN
       IF CountEq(call.arg) # 1 THEN call.ret = Err(<<ERR_INVALID_CONTAINER_PIPE_SIZE>>)
       ELSE IF KeyText(call.arg) # CONTAINER_PIPE_SIZE_OPTION
       THEN call.ret = Err(<<ERR_INVALID_CONTAINER_PIPE_SIZE_KEY>>)
       ELSE IF v \notin I32Texts
       THEN ~call.ret.ok /\ call.ret.err[1] = ERR_INVALID_CONTAINER_PIPE_SIZE_PARAM
       ELSE IF v \notin DOMAIN NonNegative
       THEN call.ret = Err(<<ERR_INVALID_CONTAINER_PIPE_NEGATIVE>>)
       ELSE call.ret = Ok(NonNegative[v])

C17_Witness ==
    /\ Called("get_container_pipe_size")
    /\ call.arg = "agent.container_pipe_size=2147483648"
    /\ ~call.ret.ok
    /\ call.ret.err[1] = ERR_INVALID_CONTAINER_PIPE_SIZE_PARAM

\* the words of the two enumerations and their variants
FeaturesWords ==
    ("all" :> "All") @@ ("attestation" :> "Attestation") @@ ("resource" :> "Resource")

ProcsWords ==
    ("none" :> "None") @@ ("api-server-rest" :> "ApiServerRest")
    @@ ("attestation-agent" :> "AttestationAgent")
    @@ ("confidential-data-hub" :> "ConfidentialDataHub")

\* a token with a name and an '='
Named(tok) == FindFrom(tok, "=", 1) > 1

\* a cmdline token of an enumerated option whose value is not a word of it
EnumRejected(tok) ==
    \/ /\ starts_with(tok, GUEST_COMPONENTS_REST_API_OPTION \o "=")
       /\ ValueText(tok) \notin DOMAIN FeaturesWords
    \/ /\ starts_with(tok, GUEST_COMPONENTS_PROCS_OPTION \o "=")
       /\ ValueText(tok) \notin DOMAIN ProcsWords

EnumError(tok) ==
    IF starts_with(tok, GUEST_COMPONENTS_REST_API_OPTION \o "=")
    THEN ERR_INVALID_GUEST_COMPONENTS_REST_API_VALUE
    ELSE ERR_INVALID_GUEST_COMPONENTS_PROCS_VALUE

\* C18: each enumerated coercer maps the words of its vocabulary to their
\* variants and fails with its own invalid-value error for any other
\* value; on the cmdline the first such failure aborts the resolution.
C18_EnumVocabularyExact ==
    /\ (Called("get_guest_components_features_value") /\ Named(call.arg))
       => call.ret = IF ValueText(call.arg) \in DOMAIN FeaturesWords
                     THEN Ok(FeaturesWords[ValueText(call.arg)])
                     ELSE Err(<<ERR_INVALID_GUEST_COMPONENTS_REST_API_VALUE>>)
    /\ (Called("get_guest_components_procs_value") /\ Named(call.arg))
       => call.ret = IF ValueText(call.arg) \in DOMAIN ProcsWords
                     THEN Ok(ProcsWords[ValueText(call.arg)])
                     ELSE Err(<<ERR_INVALID_GUEST_COMPONENTS_PROCS_VALUE>>)
    /\ (Called("from_cmdline") /\ call.arg.k \in EnumCmdlines)
       => LET ps == split_ascii_whitespace(call.arg.k.val)
              bad == {i \in 1..Len(ps) : EnumRejected(ps[i])}
              first == CHOOSE i \in bad : \A j \in bad : i <= j
          IN IF bad = {} THEN call.ret.kind = "ok"
             ELSE call.ret = Failed(<<EnumError(ps[first])>>)

C18_Witness ==
    /\ Called("from_cmdline")
    /\ call.arg.k = Ok(CmdlineText(<<"agent.guest_components_procs=none",
                                     "agent.guest_components_rest_api=bogus">>))
    /\ call.ret = Failed(<<ERR_INVALID_GUEST_COMPONENTS_REST_API_VALUE>>)

LowerCase ==
    ("A" :> "a") @@ ("B" :> "b") @@ ("C" :> "c") @@ ("D" :> "d") @@ ("E" :> "e")
    @@ ("F" :> "f") @@ ("G" :> "g") @@ ("H" :> "h") @@ ("I" :> "i") @@ ("J" :> "j")
    @@ ("K" :> "k") @@ ("L" :> "l") @@ ("M" :> "m") @@ ("N" :> "n") @@ ("O" :> "o")
    @@ ("P" :> "p") @@ ("Q" :> "q") @@ ("R" :> "r") @@ ("S" :> "s") @@ ("T" :> "t")
    @@ ("U" :> "u") @@ ("V" :> "v") @@ ("W" :> "w") @@ ("X" :> "x") @@ ("Y" :> "y")
    @@ ("Z" :> "z")

RECURSIVE ToLower(_)
ToLower(v) ==
    IF v = "" THEN ""
    ELSE (IF CharAt(v, 1) \in DOMAIN LowerCase THEN LowerCase[CharAt(v, 1)]
          ELSE CharAt(v, 1))
         \o ToLower(SubSeq(v, 2, Len(v)))

\* C19 as stated: a value that differs from a word of the vocabulary only
\* in letter case yields the variant of the lower-case word.
C19_CaseInsensitiveMatch ==
    /\ (/\ Called("get_guest_components_features_value") /\ Named(call.arg)
        /\ ToLower(ValueText(call.arg)) \in DOMAIN FeaturesWords)
       => call.ret = Ok(FeaturesWords[ToLower(ValueText(call.arg))])
    /\ (/\ Called("get_guest_components_procs_value") /\ Named(call.arg)
        /\ ToLower(ValueText(call.arg)) \in DOMAIN ProcsWords)
       => call.ret = Ok(ProcsWords[ToLower(ValueText(call.arg))])

\* C19 amended: the match is case-sensitive; a value that differs from a
\* word of the vocabulary in letter case fails with the coercer's
\* invalid-value error.
C19_CaseSensitiveMatch ==
    /\ (/\ Called("get_guest_components_features_value") /\ Named(call.arg)
        /\ ToLower(ValueText(call.arg)) \in DOMAIN FeaturesWords
        /\ ToLower(ValueText(call.arg)) # ValueText(call.arg))
       => call.ret = Err(<<ERR_INVALID_GUEST_COMPONENTS_REST_API_VALUE>>)
    /\ (/\ Called("get_guest_components_procs_value") /\ Named(call.arg)
        /\ ToLower(ValueText(call.arg)) \in DOMAIN ProcsWords
        /\ ToLower(ValueText(call.arg)) # ValueText(call.arg))
       => call.ret = Err(<<ERR_INVALID_GUEST_COMPONENTS_PROCS_VALUE>>)

C19_Witness ==
    /\ Called("get_guest_components_procs_value")
    /\ call.arg = "agent.guest_components_procs=None"
    /\ call.ret = Err(<<ERR_INVALID_GUEST_COMPONENTS_PROCS_VALUE>>)

\* C20: get_log_level fails with the invalid-parameter error unless the
\* token has exactly two '='-fields, else with the invalid-key error
\* unless the key is agent.log, else returns the level of the name and
\* fails with the invalid-log-level error for any other text.
C20_LogLevelCheckOrder ==
    Called("get_log_level")
    => /\ call.ret =
              IF CountEq(call.arg) # 1 THEN Err(<<ERR_INVALID_LOG_LEVEL_PARAM>>)
              ELSE IF KeyText(call.arg) # LOG_LEVEL_OPTION
              THEN Err(<<ERR_INVALID_LOG_LEVEL_KEY>>)
              ELSE IF ValueText(call.arg) \in DOMAIN LevelTable
              THEN Ok(LevelTable[ValueText(call.arg)])
              ELSE Err(<<ERR_INVALID_LOG_LEVEL>>)
       /\ call.arg = "==" => call.ret = Err(<<ERR_INVALID_LOG_LEVEL_PARAM>>)
       /\ call.arg = "=" => call.ret = Err(<<ERR_INVALID_LOG_LEVEL_KEY>>)
       /\ call.arg \in {"agent.log=", "agent.log=debugging", "agent.log=xdebug"}
          => call.ret = Err(<<ERR_INVALID_LOG_LEVEL>>)

C20_Witness ==
    /\ Called("get_log_level")
    /\ call.arg = "agent.log=xdebug"
    /\ call.ret = Err(<<ERR_INVALID_LOG_LEVEL>>)

\* the unsigned value texts of the calls and their numbers
SecondsOf ==
    ("0" :> 0) @@ ("1" :> 1) @@ ("00" :> 0) @@ ("11" :> 11) @@ ("100" :> 100)
    @@ ("2048" :> 2048) @@ ("+5" :> 5) @@ ("5" :> 5) @@ ("9" :> 9)

\* C21: get_timeout fails with the invalid-timeout error unless the token
\* has exactly two '='-fields, else with the invalid-key error unless the
\* key is one of the two timeout keys, else with the unable-to-parse error
\* unless the value is an unsigned integer text, else returns that many
\* seconds, zero included; on the cmdline a negative value aborts the
\* resolution with the unable-to-parse error.
C21_TimeoutCheckOrder ==
    /\ Called("get_timeout")
       => LET v == ValueText(call.arg) IN
          IF CountEq(call.arg) # 1 THEN call.ret = Err(<<ERR_INVALID_TIMEOUT>>)
          ELSE IF KeyText(call.arg) \notin {HOTPLUG_TIMOUT_OPTION, CDH_API_TIMOUT_OPTION}
          THEN call.ret = Err(<<ERR_INVALID_TIMEOUT_KEY>>)
          ELSE IF ~IsUnsignedText(v)
          THEN ~call.ret.ok /\ call.ret.err[1] = ERR_INVALID_TIMEOUT_PARAM
          ELSE call.ret = Ok([secs |-> SecondsOf[v], nanos |-> 0])
    /\ (Called("from_cmdline") /\ call.arg.k \in TimeoutCmdlines)
       => LET tok == split_ascii_whitespace(call.arg.k.val)[1] IN
          IF IsUnsignedText(ValueText(tok))
          THEN /\ call.ret.kind = "ok"
               /\ call.ret.config.hotplug_timeout.nanos = 0
               /\ call.ret.config.cdh_api_timeout.nanos = 0
          ELSE /\ call.ret.kind = "err"
               /\ call.ret.err[1] = ERR_INVALID_TIMEOUT_PARAM

C21_Witness ==
    /\ Called("from_cmdline")
    /\ call.arg.k = Ok(CmdlineText(<<"agent.hotplug_timeout=-1">>))
    /\ call.ret.kind = "err"
    /\ call.ret.err[1] = ERR_INVALID_TIMEOUT_PARAM

\* the path of the config file of a call of from_cmdline
FileOfCall(c) == IF c.a # <<>> THEN c.a[2] ELSE ValueText(split_ascii_whitespace(c.k.val)[1])

\* C22: from_str stores the level of the file's log_level text; when the
\* text is not a level name the load fails and no record is returned, by
\* --config as by the agent.config_file directive.
C22_FileLogLevelMappedOrFails ==
    /\ (Called("from_str") /\ call.arg.ok /\ IsSome(call.arg.val.log_level))
       => IF Unwrap(call.arg.val.log_level) \in DOMAIN LevelTable
          THEN /\ call.ret.ok
               /\ call.ret.val.log_level = LevelTable[Unwrap(call.arg.val.log_level)]
          ELSE call.ret = Err(<<ERR_INVALID_LOG_LEVEL>>)
    /\ (Called("from_cmdline") /\ call.arg \in FileCalls)
       => LET name == Unwrap(FileSystem[FileOfCall(call.arg)].val.log_level) IN
          IF name \in DOMAIN LevelTable
          THEN call.ret.kind = "ok" /\ call.ret.config.log_level = LevelTable[name]
          ELSE /\ call.ret.kind = "err"
               /\ call.ret.err[Len(call.ret.err)] = ERR_INVALID_LOG_LEVEL

C22_Witness ==
    /\ Called("from_cmdline")
    /\ call.arg.a = <<>>
    /\ call.arg.k = Ok(CmdlineText(<<"agent.config_file=/l">>))
    /\ call.ret = Failed(<<"AgentConfig from kernel cmdline", ERR_INVALID_LOG_LEVEL>>)

\* the first --config or -c of the arguments is their last element
FlagWithoutValue(a) ==
    /\ Len(a) > 0
    /\ a[Len(a)] \in {"--config", "-c"}
    /\ \A i \in 1..(Len(a) - 1) : a[i] \notin {"--config", "-c"}

\* C23: when the first --config or -c is the last argument, from_cmdline
\* ends fatally: it returns no record and no error, has read no token of
\* the kernel cmdline, and ends the same way on every cmdline and
\* environment.
C23_MissingConfigValuePanics ==
    (pc = "done" /\ FlagWithoutValue(args))
    => /\ result = Panicked
       /\ params = <<>>
       /\ config = DefaultConfig
       /\ \A k \in KernelCmdlinesWithArgs, e \in Envs : from_cmdline(args, k, e) = Panicked

C23_Witness ==
    /\ pc = "done"
    /\ args = <<"x", "--config">>
    /\ kcmdline.ok
    /\ IsSome(env[TRACING_ENV_VAR])
    /\ result = Panicked

\* the token is one get_string_value fails on: no '=', or nothing before
\* the first '=', or nothing after it
NoNameOrValue(tok) ==
    \/ FindFrom(tok, "=", 1) = 0
    \/ KeyText(tok) = ""
    \/ ValueText(tok) = ""

\* the error get_string_value has for such a token
NameValueError(tok) ==
    IF FindFrom(tok, "=", 1) = 0 THEN ERR_INVALID_GET_VALUE_PARAM
    ELSE IF KeyText(tok) = "" THEN ERR_INVALID_GET_VALUE_NO_NAME
    ELSE ERR_INVALID_GET_VALUE_NO_VALUE

\* C24 as stated: on every token get_string_value fails on, an enumerated
\* coercer fails with the same error, the missing-value error included.
C24_EnumFailsAsStringValue ==
    /\ (Called("get_guest_components_features_value") /\ NoNameOrValue(call.arg))
       => call.ret = Err(<<NameValueError(call.arg)>>)
    /\ (Called("get_guest_components_procs_value") /\ NoNameOrValue(call.arg))
       => call.ret = Err(<<NameValueError(call.arg)>>)

\* C24 amended: an enumerated coercer extracts the value itself; it fails
\* as get_string_value does on a token without '=' or without a name, and
\* with its own invalid-value error on a token with a name and an empty
\* value.
C24_EnumEmptyValueIsInvalidValue ==
    /\ (Called("get_guest_components_features_value") /\ NoNameOrValue(call.arg))
       => call.ret = IF FindFrom(call.arg, "=", 1) = 0 \/ KeyText(call.arg) = ""
                     THEN Err(<<NameValueError(call.arg)>>)
                     ELSE Err(<<ERR_INVALID_GUEST_COMPONENTS_REST_API_VALUE>>)
    /\ (Called("get_guest_components_procs_value") /\ NoNameOrValue(call.arg))
       => call.ret = IF FindFrom(call.arg, "=", 1) = 0 \/ KeyText(call.arg) = ""
                     THEN Err(<<NameValueError(call.arg)>>)
                     ELSE Err(<<ERR_INVALID_GUEST_COMPONENTS_PROCS_VALUE>>)

C24_Witness ==
    /\ Called("get_guest_components_features_value")
    /\ call.arg = "agent.guest_components_rest_api="
    /\ call.ret = Err(<<ERR_INVALID_GUEST_COMPONENTS_REST_API_VALUE>>)

\* C26: override_config_from_envs changes no field other than
\* server_addr, log_level and tracing; each of the three changes only when
\* its own variable is set and its value does not depend on the other two
\* variables; with no variable set the record is unchanged.
C26_EnvResolverFrame ==
    Called("override_config_from_envs")
    => LET self == call.arg.self
           e == call.arg.e
       IN /\ DOMAIN call.ret = DOMAIN self
          /\ \A f \in DOMAIN self \ EnvFields : call.ret[f] = self[f]
          /\ e[SERVER_ADDR_ENV_VAR] = None => call.ret.server_addr = self.server_addr
          /\ e[LOG_LEVEL_ENV_VAR] = None => call.ret.log_level = self.log_level
          /\ e[TRACING_ENV_VAR] = None => call.ret.tracing = self.tracing
          /\ e = NoEnv => call.ret = self
          /\ \A e2 \in CallEnvs :
                 LET r2 == override_config_from_envs(self, e2) IN
                 /\ e2[SERVER_ADDR_ENV_VAR] = e[SERVER_ADDR_ENV_VAR]
                    => r2.server_addr = call.ret.server_addr
                 /\ e2[LOG_LEVEL_ENV_VAR] = e[LOG_LEVEL_ENV_VAR]
                    => r2.log_level = call.ret.log_level
                 /\ e2[TRACING_ENV_VAR] = e[TRACING_ENV_VAR]
                    => r2.tracing = call.ret.tracing

C26_Witness ==
    /\ Called("override_config_from_envs")
    /\ call.arg.self.server_addr = "unix:///f"
    /\ call.arg.e[SERVER_ADDR_ENV_VAR] = None
    /\ call.arg.e[LOG_LEVEL_ENV_VAR] = Some("trace")
    /\ call.arg.e[TRACING_ENV_VAR] = None
    /\ call.ret = [call.arg.self EXCEPT !.log_level = "Trace"]

(***************************************************************************)
(* Properties of the pass over the tokens                                  *)
(***************************************************************************)
\* one of the tokens params[1..n] is exactly w
SeenUpTo(n, w) == \E j \in 1..n : params[j] = w

\* C25: in a pass that neither short-circuits nor aborts, debug_console
\* (dev_mode) is true exactly when some token processed is agent.debug_console
\* (agent.devmode) itself; a suffix or an '=' form does not set the flag
\* and nothing resets it; a token without '=' sets tracing only when it
\* is agent.trace itself.
C25_FlagsExactMatchOnly ==
    /\ pc = "loop"
       => /\ config.debug_console = SeenUpTo(idx - 1, DEBUG_CONSOLE_FLAG)
          /\ config.dev_mode = SeenUpTo(idx - 1, DEV_MODE_FLAG)
          /\ (\A j \in 1..(idx - 1) : FindFrom(params[j], "=", 1) = 0)
             => config.tracing = SeenUpTo(idx - 1, TRACE_MODE_OPTION)
    /\ (CmdlinePathDone /\ result.kind = "ok" /\ NoDirective(params))
       => /\ result.config.debug_console = SeenUpTo(Len(params), DEBUG_CONSOLE_FLAG)
          /\ result.config.dev_mode = SeenUpTo(Len(params), DEV_MODE_FLAG)

C25_Witness ==
    /\ CmdlinePathDone
    /\ params = <<"agent.debug_console=true", "agent.devmode">>
    /\ result.kind = "ok"
    /\ result.config.dev_mode = TRUE
    /\ result.config.debug_console = FALSE

\* the record of a file: the defaults with the fields of the file laid over
FileRecord(path) ==
    [f \in DOMAIN DefaultConfig |->
        IF f \in DOMAIN FileSystem[path].val /\ FileSystem[path].val[f] # None
        THEN (IF f = "log_level" THEN LevelTable[Unwrap(FileSystem[path].val[f])]
              ELSE Unwrap(FileSystem[path].val[f]))
        ELSE DefaultConfig[f]]

\* C27: when the pass reaches the config file directive, what the tokens
\* before it did is discarded: the result is the record of the file over
\* the defaults, so a field set by an earlier token and absent from the
\* file has its default.
C27_DirectiveDiscardsEarlierTokens ==
    \A i \in 1..Len(params) :
        (CmdlinePathDone /\ ReachesDirectiveAt(params, i))
        => /\ result = Returned(FileRecord(ValueText(params[i])))
           /\ result.config.dev_mode = DefaultConfig.dev_mode
           /\ result.config.log_level = DefaultConfig.log_level
           /\ result.config.debug_console = DefaultConfig.debug_console
           /\ result.config.tracing = DefaultConfig.tracing

C27_Witness ==
    /\ CmdlinePathDone
    /\ params = <<"agent.devmode", "agent.config_file=/z">>
    /\ config.dev_mode = TRUE
    /\ result.kind = "ok"
    /\ result.config.dev_mode = FALSE

\* the last of the tokens params[1..n] that passes Test, 0 if none does
LastWhere(n, Test(_)) ==
    LET hits == {j \in 1..n : Test(params[j])} IN
    IF hits = {} THEN 0 ELSE CHOOSE j \in hits : \A k \in hits : k <= j

IsLogToken(t) == starts_with(t, LOG_LEVEL_OPTION \o "=")

\* a hotplug timeout token whose value passes the guard
IsAcceptedHotplugToken(t) ==
    /\ starts_with(t, HOTPLUG_TIMOUT_OPTION \o "=")
    /\ SecondsOf[ValueText(t)] > 0

IsTraceToken(t) == t = TRACE_MODE_OPTION \/ starts_with(t, TRACE_MODE_OPTION \o "=")

\* C28: during a pass that neither short-circuits nor aborts, a field's
\* value before the environment resolver is that of the last token of its
\* key whose value passed the guard; for tracing the last token wins also
\* when it reads as false, so agent.trace then agent.trace=foo leaves
\* tracing false.
C28_LastAcceptedTokenWins ==
    pc = "loop"
    => LET l == LastWhere(idx - 1, IsLogToken)
           h == LastWhere(idx - 1, IsAcceptedHotplugToken)
           t == LastWhere(idx - 1, IsTraceToken)
       IN /\ config.log_level =
                 IF l = 0 THEN DEFAULT_LOG_LEVEL ELSE LevelTable[ValueText(params[l])]
          /\ config.hotplug_timeout =
                 IF h = 0 THEN DEFAULT_HOTPLUG_TIMEOUT
                 ELSE [secs |-> SecondsOf[ValueText(params[h])], nanos |-> 0]
          /\ config.tracing =
                 (t # 0 /\ (params[t] = TRACE_MODE_OPTION \/ ValueText(params[t]) = "true"))

C28_Witness ==
    /\ pc = "loop"
    /\ idx = 3
    /\ params = <<"agent.trace", "agent.trace=foo">>
    /\ config.tracing = FALSE

\* the keys that from_cmdline recognizes and the field each is bound to
KeyFields ==
    (DEBUG_CONSOLE_FLAG :> "debug_console") @@ (DEV_MODE_FLAG :> "dev_mode")
    @@ (TRACE_MODE_OPTION :> "tracing") @@ (LOG_LEVEL_OPTION :> "log_level")
    @@ (SERVER_ADDR_OPTION :> "server_addr")
    @@ (HOTPLUG_TIMOUT_OPTION :> "hotplug_timeout")
    @@ (CDH_API_TIMOUT_OPTION :> "cdh_api_timeout")
    @@ (DEBUG_CONSOLE_VPORT_OPTION :> "debug_console_vport")
    @@ (LOG_VPORT_OPTION :> "log_vport")
    @@ (PASSFD_LISTENER_PORT :> "passfd_listener_port")
    @@ (CONTAINER_PIPE_SIZE_OPTION :> "container_pipe_size")
    @@ (UNIFIED_CGROUP_HIERARCHY_OPTION :> "unified_cgroup_hierarchy")
    @@ (HTTPS_PROXY :> "https_proxy") @@ (NO_PROXY :> "no_proxy")
    @@ (GUEST_COMPONENTS_REST_API_OPTION :> "guest_components_rest_api")
    @@ (GUEST_COMPONENTS_PROCS_OPTION :> "guest_components_procs")
    @@ (IMAGE_REGISTRY_AUTH_OPTION :> "image_registry_auth")
    @@ (ENABLE_SIGNATURE_VERIFICATION :> "enable_signature_verification")
    @@ (IMAGE_POLICY_FILE :> "image_policy_file")
    @@ (SECURE_STORAGE_INTEGRITY_OPTION :> "secure_storage_integrity")

\* the keys a token is, or starts with followed by '='
TokenKeys(tok) ==
    {k \in DOMAIN KeyFields : tok = k \/ starts_with(tok, k \o "=")}

\* C29: processing one token changes at most one field, the field bound
\* to the one key the token matches; no token matches two keys.
C29_TokenChangesOneField ==
    [][(pc = "loop" /\ idx <= Len(params))
       => /\ Cardinality(TokenKeys(params[idx])) <= 1
          /\ {f \in DOMAIN config : config'[f] # config[f]}
                 \subseteq {KeyFields[k] : k \in TokenKeys(params[idx])}]_vars

C29_Witness ==
    /\ pc = "loop"
    /\ idx = 3
    /\ params = <<"agent.log=debug", "agent.log_vport=7">>
    /\ config = [DefaultConfig EXCEPT !.log_level = "Debug", !.log_vport = 7]

\* the valued option keys of the cmdlines and the coercer of each
BareKeyCoercer ==
    (LOG_LEVEL_OPTION :> "get_log_level")
    @@ (HOTPLUG_TIMOUT_OPTION :> "get_timeout")
    @@ (CONTAINER_PIPE_SIZE_OPTION :> "get_container_pipe_size")
    @@ (SERVER_ADDR_OPTION :> "get_string_value")

\* C30: a token that is a valued option key without '=' is passed over:
\* the pass goes on to the next token with the record unchanged and
\* nothing returned, although the key's coercer fails on that token.
C30_BareKeyIgnored ==
    [][(pc = "loop" /\ idx <= Len(params) /\ params[idx] \in DOMAIN BareKeyCoercer)
       => /\ pc' = "loop"
          /\ idx' = idx + 1
          /\ config' = config
          /\ result' = result
          /\ ~Call(BareKeyCoercer[params[idx]], params[idx]).ok]_vars

C30_Witness ==
    /\ pc = "done"
    /\ params = <<"agent.log", "agent.hotplug_timeout">>
    /\ env[LOG_LEVEL_ENV_VAR] = None
    /\ result = Returned(DefaultConfig)

====
